---- MODULE Spec2Model ----
(***************************************************************************)
(* Care-context linking and record notification of the ABDM hospital node. *)
(*                                                                         *)
(* Spec       the health-records page (visit dropdown, create-and-link,    *)
(*            record save) against the hospital node's linking engine.     *)
(* SpecVisits the same, while visits move through their lifecycle.         *)
(* SpecQueue  the webhook delivery queue and the status page that shows it.*)
(* SpecClear  the clear-queue button of the status page.                   *)
(* SpecBroker the status page's calls to the broker.                       *)
(* SpecCorrelator  the webhook handlers and the data-request correlator.   *)
(* SpecRegistry    the broker's bridge registry.                           *)
(* SpecUuid        utils.generateUUID.                                     *)
(* SpecAnswers     the message shown for a create-and-link response.       *)
(* SpecOverlays    the loading overlay under overlapping handlers.         *)
(* SpecDetails     the view buttons of the status page.                    *)
(* SpecSearch      patient search by mobile on the pages that offer it.    *)
(* SpecAbdm        the dashboard's ABDM connection status.                 *)
(* SpecMask        the Aadhaar number on the patients page.                *)
(***************************************************************************)
EXTENDS Integers, Sequences, FiniteSets, TLC

\* ------------------------------------------------------------------------
\* Bounds
\* ------------------------------------------------------------------------
\* handler invocations (visit selections and record saves) in one page session
MaxTasks == 2
\* the same, in the sessions during which visits change status on the server
MaxVisitTasks == 2
\* webhook events received
MaxEvents == 2
\* handler invocations of the queue consumer
MaxRuns == 3
\* refreshes of the status page (loadAllStatus, refresh of the log)
MaxLoads == 1
\* confirmed clear-queue requests
MaxClears == 1
\* declined confirm dialogs
MaxDeclines == 1
\* runs of checkGatewayStatus, loadBridgeStatus and testGatewayConnection in
\* one session of the status page
MaxOps == 4
\* DataRequests initiated
MaxRequests == 1
\* events handed to a webhook handler, replays included
MaxDeliveries == 3
\* Register calls received by the broker
MaxRegisters == 3
\* create-and-link responses shown to the user
MaxAnswers == 3
\* handler invocations whose overlays are followed one by one
MaxPageOps == 2

\* clicks on a view button of the status page
MaxClicks == 1

\* patients registered at the node
MaxPatients == 2

\* searches by mobile
MaxSearches == 1

\* runs of checkABDMStatus
MaxChecks == 3

\* characters of a stored Aadhaar value
MaxAadhaarLen == 12

\* mobile.length !== 10
MobileLength == 10

\* ------------------------------------------------------------------------
\* Data
\* ------------------------------------------------------------------------
Patients == {"P1", "P2"}
Visits == {"V1", "V2"}

\* Visit.patientId: every visit references one patient
PatientOf(v) == IF v = "V1" THEN "P1" ELSE "P2"

ActiveStatuses == {"Scheduled", "In Progress"}
TerminalStatuses == {"Completed", "Cancelled"}

\* the methods of api.healthRecords
ApiHealthRecords == {"create", "getByPatient", "list"}

VARIABLES
  visitStatus,          \* server: status of every visit
  visitsLoaded,         \* loadActiveVisits has completed
  allVisits,            \* page global: the visits kept by loadActiveVisits
  urlTimer,             \* visit_id of the pending URL preselection timer, "" if none
  visitSelect,          \* value of the visit dropdown
  patientIdField,       \* value of the patientId input
  visitIdField,         \* value of the visitId input
  selectedVisit,        \* page global ("" is null/undefined)
  selectedCareContext,  \* page global (0 is null)
  overlays,             \* number of loadingOverlay elements in the document
  tasks,                \* handler invocations, in the order they started
  careContexts,         \* server: CareContext rows, contextId = index
  healthRecords,        \* server: HealthRecord rows, id = index
  sent,                 \* history: requests issued, with the visit's status then
  budget,               \* handler invocations the session may still start
  queue,                \* server: the webhook queue
  enqueued,             \* history: every event as it was enqueued, id = index
  drainAt,              \* consumer: index of the next entry to handle, 0 when idle
  pass,                 \* consumer: number of the drain under way or last run
  runs,                 \* history: handler invocations, in the order they ran
  webhookQueue,         \* status page global
  pendingWebhooks,      \* status page: the pendingWebhooks counter
  queueRows,            \* status page: rows of webhookQueueContent
  logRows,              \* status page: rows of webhookLogTableBody
  pending,              \* load functions of the page awaiting GET /webhook/queue
  loads,                \* refreshes started
  clearPc,              \* clearWebhookQueue: "idle", "delete", "loadQueue", "loadLog"
  clears,               \* confirmed clear-queue requests started
  confirmLog,           \* history: the operator's answers to the confirm dialog
  deletesSent,          \* history: DELETE /webhook/queue requests sent
  ops,                  \* status page: runs of the functions that call the broker
  calls,                \* history: requests sent to the broker, in order
  gatewayStatus,        \* status page: the gatewayStatus element
  bridgeStatus,         \* status page: the bridgeStatus element
  authStatus,           \* status page: the authStatus badge
  tokens,               \* broker: access tokens issued so far
  statusRuns,           \* status refreshes and connection tests started
  dataRequests,         \* node: DataRequest rows, requestId = index
  inbox,                \* history: events handed to their handler, in order
  replies,              \* history: what the delivering party got back for each
  registrations,        \* broker: BridgeRegistration rows
  registerLog,          \* history: the Register calls, in the order they arrived
  uuid,                 \* the last value generateUUID returned, <<>> before
  shown,                \* history: create-and-link responses and the message shown
  pageOps,              \* handler invocations that show and hide the overlay
  overlayList,          \* the loadingOverlay elements in document order, by owner
  details,              \* history: clicks on a view button and what the modal showed
  aadhaarCell,          \* patients page: a stored aadhaar and the text shown for it
  abdmStatus,           \* dashboard: the abdmStatus element
  abdmRuns,             \* dashboard: runs of checkABDMStatus
  patientList,          \* server: the rows GET /api/patient/list returns
  searchResults         \* history: searches by mobile and what the page rendered

clearLog == <<confirmLog, deletesSent>>

webhookVars == <<queue, enqueued, drainAt, pass, runs, webhookQueue,
                 pendingWebhooks, queueRows, logRows, pending, loads, clearPc,
                 clears, clearLog>>

brokerVars == <<ops, calls, gatewayStatus, bridgeStatus, authStatus, tokens,
                statusRuns>>

corrVars == <<dataRequests, inbox, replies>>

regVars == <<registrations, registerLog>>

\* the pages outside the health-records page and the status page
utilVars == <<uuid, shown>>

overlayVars == <<pageOps, overlayList>>

detailVars == <<details>>

maskVars == <<aadhaarCell>>

abdmVars == <<abdmStatus, abdmRuns>>

searchVars == <<patientList, searchResults>>

viewVars == <<detailVars, maskVars, abdmVars, searchVars>>

auxVars == <<utilVars, overlayVars, viewVars>>

\* the node's correlator and the broker's registry
nodeVars == <<corrVars, regVars, auxVars>>

\* the state outside the health-records page and the webhook queue
extVars == <<brokerVars, nodeVars>>

queueVars == <<webhookVars, extVars>>

linkVars == <<visitStatus, visitsLoaded, allVisits, urlTimer, visitSelect,
              patientIdField, visitIdField, selectedVisit, selectedCareContext,
              tasks, careContexts, healthRecords, sent, budget>>

vars == <<linkVars, overlays, queueVars>>

\* everything but the views of the status page, the patients page, the
\* dashboard and the patient search
coreVars == <<linkVars, overlays, webhookVars, brokerVars, corrVars, regVars,
              utilVars, overlayVars>>

pageVars == <<visitSelect, patientIdField, visitIdField, selectedVisit,
              selectedCareContext>>

\* ------------------------------------------------------------------------
\* utils
\* ------------------------------------------------------------------------
showLoading(n) == n + 1

hideLoading(n) == IF n > 0 THEN n - 1 ELSE n

\* ------------------------------------------------------------------------
\* Handler invocations
\* ------------------------------------------------------------------------
NewTask(kind, visit, pid, ok) ==
  [kind |-> kind, pc |-> "start", visit |-> visit, patientId |-> pid,
   fieldsOk |-> ok, calStage |-> "none", calPatient |-> "", calVisit |-> "",
   calCtx |-> 0, calHow |-> "none", calAlone |-> FALSE, calCalls |-> 0,
   calOutcome |-> "none",
   createIssued |-> FALSE, createPath |-> "", created |-> 0,
   notifyCalls |-> 0, outcome |-> "none"]

TaskIds == DOMAIN tasks

\* the visit statuses kept by the loadActiveVisits filter
IsActiveVisit(status) == status \in ActiveStatuses

\* allVisits.find((v) => (v.visitId || v.id) === selectedVisitId)
FindVisit(id) == IF id \in allVisits THEN id ELSE ""

\* no create-and-link call is in flight
NoCallInFlight == \A u \in TaskIds : tasks[u].calStage = "none"

\* the request sent with the patient id read off the snake_case key only
CalRequestSnakeCaseOnly(task, pid) ==
  [task EXCEPT !.pc = "cal", !.calStage = "sent", !.calPatient = "undefined",
               !.calVisit = "", !.calCalls = @ + 1,
               !.calAlone = NoCallInFlight]

\* the request built by createAndLinkCareContext: { patientId, contextName,
\* description }; it carries no visit id
CalRequest(task, pid) ==
  [task EXCEPT !.pc = "cal", !.calStage = "sent", !.calPatient = pid,
               !.calVisit = "", !.calCalls = @ + 1,
               !.calAlone = NoCallInFlight]

SentEntry(kind, v) ==
  [kind |-> kind, visit |-> v,
   status |-> IF v \in Visits THEN visitStatus[v] ELSE "none"]

InitPage ==
  /\ visitStatus = [v \in Visits |-> "Scheduled"]
  /\ visitsLoaded = FALSE
  /\ allVisits = {}
  /\ urlTimer \in Visits \cup {""}
  /\ visitSelect = ""
  /\ patientIdField = ""
  /\ visitIdField = ""
  /\ selectedVisit = ""
  /\ selectedCareContext = 0
  /\ overlays = 0
  /\ tasks = <<>>
  /\ careContexts = <<>>
  /\ healthRecords = <<>>
  /\ sent = {}

\* the status page and the queue before any event arrived
InitStatusPage ==
  /\ queue = <<>>
  /\ enqueued = <<>>
  /\ drainAt = 0
  /\ pass = 0
  /\ runs = <<>>
  /\ webhookQueue = <<>>
  /\ pendingWebhooks = 0
  /\ queueRows = <<>>
  /\ logRows = <<>>
  /\ pending = {}
  /\ loads = 0
  /\ clearPc = "idle"
  /\ clears = 0
  /\ confirmLog = <<>>
  /\ deletesSent = 0
  /\ ops = <<>>
  /\ calls = <<>>
  /\ gatewayStatus = ""
  /\ bridgeStatus = ""
  /\ authStatus = ""
  /\ tokens = 0
  /\ statusRuns = 0
  /\ dataRequests = <<>>
  /\ inbox = <<>>
  /\ replies = <<>>
  /\ registrations = <<>>
  /\ registerLog = <<>>
  /\ uuid = <<>>
  /\ shown = <<>>
  /\ pageOps = <<>>
  /\ overlayList = <<>>
  /\ details = <<>>
  /\ aadhaarCell = <<>>
  /\ abdmStatus = ""
  /\ abdmRuns = <<>>
  /\ patientList = <<>>
  /\ searchResults = <<>>

Init ==
  /\ InitPage
  /\ InitStatusPage
  /\ budget = MaxTasks

\* a session during which the visits move through their lifecycle
InitVisits ==
  /\ InitPage
  /\ InitStatusPage
  /\ budget = MaxVisitTasks

\* a session of the status page
InitQueue ==
  /\ InitPage
  /\ InitStatusPage
  /\ urlTimer = ""
  /\ budget = MaxTasks

\* loadActiveVisits: keep the visits that are Scheduled or In Progress now
LoadActiveVisits ==
  /\ ~visitsLoaded
  /\ visitsLoaded' = TRUE
  /\ allVisits' = {v \in Visits : IsActiveVisit(visitStatus[v])}
  /\ UNCHANGED <<queueVars, budget, visitStatus, urlTimer, pageVars, overlays, tasks,
                 careContexts, healthRecords, sent>>

\* ------------------------------------------------------------------------
\* Visit lifecycle on the server
\* ------------------------------------------------------------------------
\* Status is monotonic forward except Scheduled -> Cancelled
VisitStep(from, to) ==
  \/ from = "Scheduled" /\ to \in {"In Progress", "Cancelled"}
  \/ from = "In Progress" /\ to = "Completed"

AdvanceVisit(v, to) ==
  /\ VisitStep(visitStatus[v], to)
  /\ visitStatus' = [visitStatus EXCEPT ![v] = to]
  /\ UNCHANGED <<queueVars, budget, visitsLoaded, allVisits, urlTimer, pageVars, overlays, tasks,
                 careContexts, healthRecords, sent>>

\* ------------------------------------------------------------------------
\* handleVisitSelection
\* ------------------------------------------------------------------------
\* the body of handleVisitSelection once visitSelect.value is v
VisitSelection(v) ==
  /\ visitSelect' = v
  /\ IF v = ""
     THEN /\ patientIdField' = ""
          /\ visitIdField' = ""
          /\ selectedVisit' = ""
          /\ selectedCareContext' = 0
          /\ UNCHANGED <<overlays, tasks, sent, budget>>
     ELSE IF FindVisit(v) = ""
     THEN /\ selectedVisit' = ""
          /\ UNCHANGED <<patientIdField, visitIdField, selectedCareContext,
                         overlays, tasks, sent, budget>>
     ELSE /\ budget > 0
          /\ budget' = budget - 1
          /\ selectedVisit' = FindVisit(v)
          /\ patientIdField' = PatientOf(FindVisit(v))
          /\ visitIdField' = v
          /\ overlays' = showLoading(overlays)
          /\ tasks' = Append(tasks,
                CalRequest(NewTask("select", v, PatientOf(FindVisit(v)), TRUE),
                           PatientOf(FindVisit(v))))
          /\ sent' = sent \cup {SentEntry("createAndLink", v)}
          /\ UNCHANGED selectedCareContext

\* the user picks an option of the dropdown (change event)
UserSelectVisit(v) ==
  /\ v \in allVisits \cup {""}
  /\ v # visitSelect
  /\ VisitSelection(v)
  /\ UNCHANGED <<queueVars, visitStatus, visitsLoaded, allVisits, urlTimer, careContexts,
                 healthRecords>>

\* the 500 ms timer of the visit_id URL parameter
UrlPreselectTimer ==
  /\ urlTimer # ""
  /\ urlTimer' = ""
  /\ IF urlTimer \in allVisits
     THEN VisitSelection(urlTimer)
     ELSE UNCHANGED <<pageVars, overlays, tasks, sent, budget>>
  /\ UNCHANGED <<queueVars, visitStatus, visitsLoaded, allVisits, careContexts,
                 healthRecords>>

\* ------------------------------------------------------------------------
\* createAndLinkCareContext: what follows the awaited call
\* ------------------------------------------------------------------------
\* the message shown for a response that has a contextId
CalMessage(gwStatus) ==
  IF gwStatus = "pending" THEN "local" ELSE "linked"

\* step 3 without its own try/catch: the error of the notification reaches the
\* catch of the save
SaveFinishUncaught(t, task, ov) ==
  /\ tasks' = [tasks EXCEPT ![t] = [task EXCEPT !.pc = "done", !.outcome = "error"]]
  /\ overlays' = hideLoading(ov)
  /\ UNCHANGED <<visitSelect, patientIdField, visitIdField, selectedVisit,
                 selectedCareContext>>

\* the rest of handleCreateHealthRecord after step 2: notify, reset, reload
SaveFinish(t, task, ov) ==
  /\ tasks' = [tasks EXCEPT ![t] =
        [task EXCEPT !.pc = "load",
                     !.notifyCalls =
                        IF "notifyGateway" \in ApiHealthRecords THEN @ + 1 ELSE @,
                     !.outcome =
                        IF "notifyGateway" \in ApiHealthRecords
                        THEN "registered" ELSE "notifyPending"]]
  /\ visitSelect' = ""
  /\ patientIdField' = ""
  /\ visitIdField' = ""
  /\ selectedVisit' = ""
  /\ selectedCareContext' = 0
  /\ overlays' = showLoading(ov)

\* createAndLinkCareContext calling itself again when the call failed
AfterCalRetry(t, task, scc) ==
  IF task.calOutcome \in {"failed", "missing"}
  THEN /\ tasks' = [tasks EXCEPT ![t] = CalRequest(task, task.calPatient)]
       /\ UNCHANGED <<pageVars, overlays>>
  ELSE IF task.kind = "select"
  THEN /\ tasks' = [tasks EXCEPT ![t] = [task EXCEPT !.pc = "done"]]
       /\ selectedCareContext' = scc
       /\ overlays' = hideLoading(overlays)
       /\ UNCHANGED <<visitSelect, patientIdField, visitIdField, selectedVisit>>
  ELSE SaveFinish(t, task, hideLoading(overlays))

\* the caller resumes after createAndLinkCareContext returned
AfterCal(t, task, scc) ==
  IF task.kind = "select"
  THEN /\ tasks' = [tasks EXCEPT ![t] = [task EXCEPT !.pc = "done"]]
       /\ selectedCareContext' = scc
       /\ overlays' = hideLoading(overlays)
       /\ UNCHANGED <<visitSelect, patientIdField, visitIdField, selectedVisit>>
  ELSE SaveFinish(t, task, hideLoading(overlays))

\* response.localContext.contextId is present
CalResponse(t) ==
  /\ t \in TaskIds
  /\ tasks[t].pc = "cal" /\ tasks[t].calStage = "respond"
  /\ AfterCal(t, [tasks[t] EXCEPT !.calStage = "none",
                    !.calOutcome =
                       CalMessage(careContexts[tasks[t].calCtx].linkingStatus)],
              tasks[t].calCtx)
  /\ UNCHANGED <<queueVars, budget, visitStatus, visitsLoaded, allVisits, urlTimer, careContexts,
                 healthRecords, sent>>

\* the response has no localContext.contextId
CalResponseMissing(t) ==
  /\ t \in TaskIds
  /\ tasks[t].pc = "cal" /\ tasks[t].calStage = "respond"
  /\ AfterCal(t, [tasks[t] EXCEPT !.calStage = "none", !.calOutcome = "missing"],
              selectedCareContext)
  /\ UNCHANGED <<queueVars, budget, visitStatus, visitsLoaded, allVisits, urlTimer, careContexts,
                 healthRecords, sent>>

\* api.post throws: the node is unreachable or answers with an HTTP error
CalThrows(t) ==
  /\ t \in TaskIds
  /\ tasks[t].pc = "cal" /\ tasks[t].calStage \in {"sent", "respond"}
  /\ AfterCal(t, [tasks[t] EXCEPT !.calStage = "none", !.calOutcome = "failed"],
              selectedCareContext)
  /\ UNCHANGED <<queueVars, budget, visitStatus, visitsLoaded, allVisits, urlTimer, careContexts,
                 healthRecords, sent>>

\* ------------------------------------------------------------------------
\* Linking engine of the hospital node: create-and-link
\* ------------------------------------------------------------------------
CtxIds == DOMAIN careContexts

\* lookup by (patientId, visitId): the row of that key, 0 if there is none
LookupContext(pid, vid) ==
  IF \E c \in CtxIds : careContexts[c].patientId = pid /\ careContexts[c].visitId = vid
  THEN CHOOSE c \in CtxIds :
         careContexts[c].patientId = pid /\ careContexts[c].visitId = vid
  ELSE 0

\* every call binds again and puts the row back to pending
ReuseContextRebind(t, c, how) ==
  /\ tasks' = [tasks EXCEPT ![t] =
        [@ EXCEPT !.calStage = "respond", !.calCtx = c, !.calHow = how]]
  /\ careContexts' = [careContexts EXCEPT ![c] =
        [@ EXCEPT !.linkingStatus = "pending", !.linkingError = "",
                  !.binding = TRUE, !.retry = TRUE]]

\* an existing row serves the call: a non-failed row is reused as it is, a failed
\* row gets a new bind attempt
ReuseContext(t, c, how) ==
  /\ tasks' = [tasks EXCEPT ![t] =
        [@ EXCEPT !.calStage = "respond", !.calCtx = c,
                  !.calHow = IF careContexts[c].linkingStatus = "failed"
                             THEN "retried" ELSE how]]
  /\ careContexts' =
       IF careContexts[c].linkingStatus = "failed" /\ ~careContexts[c].binding
       THEN [careContexts EXCEPT ![c] = [@ EXCEPT !.binding = TRUE, !.retry = TRUE]]
       ELSE careContexts

\* step (1): the call looks for the row of its key
BackendLookup(t) ==
  /\ t \in TaskIds
  /\ tasks[t].calStage = "sent"
  /\ IF LookupContext(tasks[t].calPatient, tasks[t].calVisit) # 0
     THEN ReuseContext(t, LookupContext(tasks[t].calPatient, tasks[t].calVisit),
                       "reused")
     ELSE /\ tasks' = [tasks EXCEPT ![t] = [@ EXCEPT !.calStage = "insert"]]
          /\ UNCHANGED careContexts
  /\ UNCHANGED <<queueVars, budget, visitStatus, visitsLoaded, allVisits, urlTimer, pageVars,
                 overlays, healthRecords, sent>>

\* the row written by a call that found none: pending, bind call started
NewContext(pid, vid) ==
  [patientId |-> pid, visitId |-> vid, linkingStatus |-> "pending",
   linkingError |-> "", binding |-> TRUE, retry |-> FALSE]

\* the write without a uniqueness constraint
InsertContextUnchecked(t) ==
  /\ careContexts' = Append(careContexts,
        NewContext(tasks[t].calPatient, tasks[t].calVisit))
  /\ tasks' = [tasks EXCEPT ![t] =
        [@ EXCEPT !.calStage = "respond", !.calCtx = Len(careContexts) + 1,
                  !.calHow = "created"]]

\* the write under the uniqueness constraint on (patientId, visitId): the writer
\* that loses is served by the row that won
InsertContext(t) ==
  IF LookupContext(tasks[t].calPatient, tasks[t].calVisit) # 0
  THEN ReuseContext(t, LookupContext(tasks[t].calPatient, tasks[t].calVisit),
                    "lost")
  ELSE /\ careContexts' = Append(careContexts,
             NewContext(tasks[t].calPatient, tasks[t].calVisit))
       /\ tasks' = [tasks EXCEPT ![t] =
             [@ EXCEPT !.calStage = "respond", !.calCtx = Len(careContexts) + 1,
                       !.calHow = "created"]]

BackendInsert(t) ==
  /\ t \in TaskIds
  /\ tasks[t].calStage = "insert"
  /\ InsertContext(t)
  /\ UNCHANGED <<queueVars, budget, visitStatus, visitsLoaded, allVisits, urlTimer, pageVars,
                 overlays, healthRecords, sent>>

\* step (3): the broker confirms the bind
BindSucceeds(c) ==
  /\ c \in CtxIds
  /\ careContexts[c].binding
  /\ careContexts' = [careContexts EXCEPT ![c] =
        [@ EXCEPT !.linkingStatus = "linked", !.linkingError = "",
                  !.binding = FALSE, !.retry = FALSE]]
  /\ UNCHANGED <<queueVars, budget, visitStatus, visitsLoaded, allVisits, urlTimer, pageVars,
                 overlays, tasks, healthRecords, sent>>

\* step (4): network failure, timeout or rejection by the broker
BindFails(c) ==
  /\ c \in CtxIds
  /\ careContexts[c].binding
  /\ careContexts' = [careContexts EXCEPT ![c] =
        [@ EXCEPT !.linkingStatus = "failed", !.linkingError = "bind failed",
                  !.binding = FALSE, !.retry = FALSE]]
  /\ UNCHANGED <<queueVars, budget, visitStatus, visitsLoaded, allVisits, urlTimer, pageVars,
                 overlays, tasks, healthRecords, sent>>

\* ------------------------------------------------------------------------
\* handleCreateHealthRecord
\* ------------------------------------------------------------------------
\* recordData: the keys of the object passed to api.healthRecords.create
RecordData(pid, vid) == [patientId |-> pid, visitId |-> vid]

\* api.healthRecords.create: `/api/health-records/${data.patient_id}`
CreatePath(data) ==
  IF "patient_id" \in DOMAIN data THEN data["patient_id"] ELSE "undefined"

\* a validation that also asks for a care context
FormAcceptedWithContext(visitId, patientId, ok) ==
  visitId # "" /\ patientId # "" /\ ok /\ selectedCareContext # 0

\* the validation at the head of handleCreateHealthRecord
FormAccepted(visitId, patientId, ok) ==
  visitId # "" /\ patientId # "" /\ ok

\* form submission; ok: recordType, recordDate and title are filled in
HandleCreateHealthRecord(ok) ==
  /\ budget > 0
  /\ budget' = budget - 1
  /\ IF FormAccepted(visitSelect, patientIdField, ok)
     THEN /\ overlays' = showLoading(overlays)
          /\ tasks' = Append(tasks,
               [NewTask("save", visitSelect, patientIdField, ok) EXCEPT
                  !.pc = "create", !.createIssued = TRUE,
                  !.createPath =
                     CreatePath(RecordData(patientIdField,
                        IF visitIdField # "" THEN visitIdField ELSE visitSelect))])
          /\ sent' = sent \cup {SentEntry("createRecord", visitSelect)}
     ELSE /\ tasks' = Append(tasks,
               [NewTask("save", visitSelect, patientIdField, ok) EXCEPT
                  !.pc = "done", !.outcome = "rejected"])
          /\ UNCHANGED <<overlays, sent>>
  /\ UNCHANGED <<queueVars, visitStatus, visitsLoaded, allVisits, urlTimer, pageVars,
                 careContexts, healthRecords>>

\* step 1 succeeded: the node stored the record and answered with its id
CreateSucceeds(t) ==
  /\ t \in TaskIds
  /\ tasks[t].pc = "create"
  /\ healthRecords' = Append(healthRecords,
        [patientId |-> tasks[t].createPath, visitId |-> tasks[t].visit])
  /\ IF selectedCareContext = 0 /\ selectedVisit # ""
     THEN \* step 2: createAndLinkCareContext(patientId, department, recordType)
          /\ tasks' = [tasks EXCEPT ![t] =
                CalRequest([@ EXCEPT !.created = Len(healthRecords) + 1],
                           tasks[t].patientId)]
          /\ overlays' = showLoading(overlays)
          /\ sent' = sent \cup {SentEntry("createAndLink", tasks[t].visit)}
          /\ UNCHANGED pageVars
     ELSE /\ SaveFinish(t, [tasks[t] EXCEPT !.created = Len(healthRecords) + 1],
                        overlays)
          /\ UNCHANGED sent
  /\ UNCHANGED <<queueVars, budget, visitStatus, visitsLoaded, allVisits, urlTimer, careContexts>>

\* the reset of the selection placed in the finally block
CreateFailsResets(t) ==
  /\ t \in TaskIds
  /\ tasks[t].pc = "create"
  /\ tasks' = [tasks EXCEPT ![t] = [@ EXCEPT !.pc = "done", !.outcome = "error"]]
  /\ overlays' = hideLoading(overlays)
  /\ visitSelect' = ""
  /\ patientIdField' = ""
  /\ visitIdField' = ""
  /\ selectedVisit' = ""
  /\ selectedCareContext' = 0
  /\ UNCHANGED <<queueVars, budget, visitStatus, visitsLoaded, allVisits, urlTimer,
                 careContexts, healthRecords, sent>>

\* step 1 failed: catch shows the error, finally hides the overlay
CreateFails(t) ==
  /\ t \in TaskIds
  /\ tasks[t].pc = "create"
  /\ tasks' = [tasks EXCEPT ![t] = [@ EXCEPT !.pc = "done", !.outcome = "error"]]
  /\ overlays' = hideLoading(overlays)
  /\ UNCHANGED <<queueVars, budget, visitStatus, visitsLoaded, allVisits, urlTimer, pageVars,
                 careContexts, healthRecords, sent>>

\* loadHealthRecords returned: its finally and the finally of the save
SaveReturns(t) ==
  /\ t \in TaskIds
  /\ tasks[t].pc = "load"
  /\ tasks' = [tasks EXCEPT ![t] = [@ EXCEPT !.pc = "done"]]
  /\ overlays' = hideLoading(hideLoading(overlays))
  /\ UNCHANGED <<queueVars, budget, visitStatus, visitsLoaded, allVisits, urlTimer, pageVars,
                 careContexts, healthRecords, sent>>

Next ==
  \/ LoadActiveVisits
  \/ \E v \in Visits \cup {""} : UserSelectVisit(v)
  \/ UrlPreselectTimer
  \/ \E t \in TaskIds : CalResponse(t)
  \/ \E t \in TaskIds : CalResponseMissing(t)
  \/ \E t \in TaskIds : CalThrows(t)
  \/ \E t \in TaskIds : BackendLookup(t)
  \/ \E t \in TaskIds : BackendInsert(t)
  \/ \E c \in CtxIds : BindSucceeds(c)
  \/ \E c \in CtxIds : BindFails(c)
  \/ \E ok \in BOOLEAN : HandleCreateHealthRecord(ok)
  \/ \E t \in TaskIds : CreateSucceeds(t)
  \/ \E t \in TaskIds : CreateFails(t)
  \/ \E t \in TaskIds : SaveReturns(t)

Spec == Init /\ [][Next]_vars

NextVisits ==
  \/ Next
  \/ \E v \in Visits, to \in ActiveStatuses \cup TerminalStatuses : AdvanceVisit(v, to)

SpecVisits == InitVisits /\ [][NextVisits]_vars


\* ------------------------------------------------------------------------
\* Webhook delivery queue
\* ------------------------------------------------------------------------
\* Enqueue(event): assign receivedAt and append
Enqueue ==
  /\ Len(enqueued) < MaxEvents
  /\ LET e == [id |-> Len(enqueued) + 1, receivedAt |-> Len(enqueued) + 1,
               processed |-> FALSE]
     IN /\ queue' = Append(queue, e)
        /\ enqueued' = Append(enqueued, e)
  /\ UNCHANGED <<linkVars, extVars, clearLog, overlays, drainAt, pass, runs, webhookQueue,
                 pendingWebhooks, queueRows, logRows, pending, loads, clearPc,
                 clears>>

\* the single consumer starts a drain at the head of the queue when an entry
\* is waiting
DrainStart ==
  /\ drainAt = 0
  /\ \E i \in DOMAIN queue : ~queue[i].processed
  /\ Len(runs) < MaxRuns
  /\ drainAt' = 1
  /\ pass' = pass + 1
  /\ UNCHANGED <<linkVars, extVars, clearLog, overlays, queue, enqueued, runs, webhookQueue,
                 pendingWebhooks, queueRows, logRows, pending, loads, clearPc,
                 clears>>

\* the entry after a handler run: processed is flipped when the handler succeeded
AfterHandler(e, ok) == IF ok THEN [e EXCEPT !.processed = TRUE] ELSE e

\* the drain hands the next unprocessed entry to its handler
DrainHandle(ok) ==
  /\ drainAt \in DOMAIN queue
  /\ ~queue[drainAt].processed
  /\ Len(runs) < MaxRuns
  /\ queue' = [queue EXCEPT ![drainAt] = AfterHandler(@, ok)]
  /\ runs' = Append(runs, [id |-> queue[drainAt].id, ok |-> ok, pass |-> pass])
  /\ drainAt' = drainAt + 1
  /\ UNCHANGED <<linkVars, extVars, clearLog, overlays, enqueued, pass, webhookQueue,
                 pendingWebhooks, queueRows, logRows, pending, loads, clearPc,
                 clears>>

\* the drain passes over an entry that is processed already
DrainSkip ==
  /\ drainAt \in DOMAIN queue
  /\ queue[drainAt].processed
  /\ drainAt' = drainAt + 1
  /\ UNCHANGED <<linkVars, extVars, clearLog, overlays, queue, enqueued, pass, runs, webhookQueue,
                 pendingWebhooks, queueRows, logRows, pending, loads, clearPc,
                 clears>>

\* the drain reached the end of the queue
DrainEnd ==
  /\ drainAt > Len(queue)
  /\ drainAt' = 0
  /\ UNCHANGED <<linkVars, extVars, clearLog, overlays, queue, enqueued, pass, runs, webhookQueue,
                 pendingWebhooks, queueRows, logRows, pending, loads, clearPc,
                 clears>>

\* ------------------------------------------------------------------------
\* Status page: loadWebhookQueue, loadWebhookLog, clearWebhookQueue
\* ------------------------------------------------------------------------
\* api.webhooks.getQueue: GET /webhook/queue has no effect on the node; the
\* response is the queue as it is when the node answers, and a step below is
\* taken at that moment
GetQueue == queue

\* the rows listed newest first
QueueRowsReversed(q) ==
  [i \in DOMAIN q |-> [index |-> i - 1, id |-> q[Len(q) + 1 - i].id]]

\* the rows of webhookQueueContent: queue.map((webhook, index) => ...)
QueueRows(q) == [i \in DOMAIN q |-> [index |-> i - 1, id |-> q[i].id]]

\* a badge that shows the flag the wrong way round
StatusTextInverted(processed) == IF processed THEN "Pending" ELSE "Processed"

\* the status badge of a log row
StatusText(processed) == IF processed THEN "Processed" ELSE "Pending"

\* the rows of webhookLogTableBody: queueArray.map((webhook, index) => ...)
LogRows(q) ==
  [i \in DOMAIN q |->
     [index |-> i - 1, id |-> q[i].id, status |-> StatusText(q[i].processed)]]

\* loadAllStatus: loadWebhookQueue and loadWebhookLog are started side by side
LoadAllStatus ==
  /\ loads < MaxLoads
  /\ loads' = loads + 1
  /\ pending' = pending \cup {"queue", "log"}
  /\ UNCHANGED <<linkVars, extVars, clearLog, overlays, queue, enqueued, drainAt, pass, runs,
                 webhookQueue, pendingWebhooks, queueRows, logRows, clearPc,
                 clears>>

\* the refresh button of the log: loadWebhookLog alone
RefreshLog ==
  /\ loads < MaxLoads
  /\ loads' = loads + 1
  /\ pending' = pending \cup {"log"}
  /\ UNCHANGED <<linkVars, extVars, clearLog, overlays, queue, enqueued, drainAt, pass, runs,
                 webhookQueue, pendingWebhooks, queueRows, logRows, clearPc,
                 clears>>

\* a load function of owner ("page" or "clear") is waiting for its response
Awaiting(owner, fn) ==
  IF owner = "page" THEN fn \in pending
  ELSE clearPc = (IF fn = "queue" THEN "loadQueue" ELSE "loadLog")

\* the caller goes on after its load returned: clearWebhookQueue loads the log
\* after the queue, then reaches finally
LoadReturns(owner, fn) ==
  IF owner = "page"
  THEN /\ pending' = pending \ {fn}
       /\ UNCHANGED <<clearPc, overlays>>
  ELSE IF fn = "queue"
  THEN /\ clearPc' = "loadLog"
       /\ UNCHANGED <<pending, overlays>>
  ELSE /\ clearPc' = "idle"
       /\ overlays' = hideLoading(overlays)
       /\ UNCHANGED pending

\* loadWebhookQueue: the response arrived
QueueLoaded(owner) ==
  /\ Awaiting(owner, "queue")
  /\ webhookQueue' = GetQueue
  /\ pendingWebhooks' = Len(GetQueue)
  /\ queueRows' = QueueRows(GetQueue)
  /\ LoadReturns(owner, "queue")
  /\ UNCHANGED <<linkVars, extVars, clearLog, queue, enqueued, drainAt, pass, runs, logRows, loads,
                 clears>>

\* loadWebhookQueue: the request failed
QueueLoadFails(owner) ==
  /\ Awaiting(owner, "queue")
  /\ pendingWebhooks' = 0
  /\ queueRows' = <<>>
  /\ LoadReturns(owner, "queue")
  /\ UNCHANGED <<linkVars, extVars, clearLog, queue, enqueued, drainAt, pass, runs, webhookQueue,
                 logRows, loads, clears>>

\* loadWebhookLog: the response arrived
LogLoaded(owner) ==
  /\ Awaiting(owner, "log")
  /\ logRows' = LogRows(GetQueue)
  /\ LoadReturns(owner, "log")
  /\ UNCHANGED <<linkVars, extVars, clearLog, queue, enqueued, drainAt, pass, runs, webhookQueue,
                 pendingWebhooks, queueRows, loads, clears>>

\* loadWebhookLog: the request failed
LogLoadFails(owner) ==
  /\ Awaiting(owner, "log")
  /\ logRows' = <<>>
  /\ LoadReturns(owner, "log")
  /\ UNCHANGED <<linkVars, extVars, clearLog, queue, enqueued, drainAt, pass, runs, webhookQueue,
                 pendingWebhooks, queueRows, loads, clears>>

\* declined confirm dialogs so far
Declines == Cardinality({i \in DOMAIN confirmLog : ~confirmLog[i]})

\* a handler that goes on whatever the operator answered
ClearConfirmedAlways(answer) == TRUE

\* if (!confirm("Are you sure ...")) return;
ClearConfirmed(answer) == answer

\* a click on clearQueueBtn, the operator answering the confirm dialog
ClearClick(answer) ==
  /\ clearPc = "idle"
  /\ confirmLog' = Append(confirmLog, answer)
  /\ IF ClearConfirmed(answer)
     THEN /\ clears < MaxClears
          /\ clears' = clears + 1
          /\ clearPc' = "delete"
          /\ deletesSent' = deletesSent + 1
          /\ overlays' = showLoading(overlays)
     ELSE /\ Declines < MaxDeclines
          /\ UNCHANGED <<clears, clearPc, deletesSent, overlays>>
  /\ UNCHANGED <<linkVars, extVars, queue, enqueued, drainAt, pass, runs,
                 webhookQueue, pendingWebhooks, queueRows, logRows, pending,
                 loads>>

\* clearWebhookQueue after the operator confirmed
ClearWebhookQueue == ClearClick(TRUE)

\* clearWebhookQueue after the operator declined
ClearDeclined == ClearClick(FALSE)

\* DELETE /webhook/queue: the node discards every entry; the page reloads
ClearDeleted ==
  /\ clearPc = "delete"
  /\ queue' = <<>>
  /\ clearPc' = "loadQueue"
  /\ UNCHANGED <<linkVars, extVars, clearLog, overlays, enqueued, drainAt, pass, runs, webhookQueue,
                 pendingWebhooks, queueRows, logRows, pending, loads, clears>>

\* DELETE /webhook/queue failed: catch shows the error, finally hides the overlay
ClearFails ==
  /\ clearPc = "delete"
  /\ clearPc' = "idle"
  /\ overlays' = hideLoading(overlays)
  /\ UNCHANGED <<linkVars, extVars, clearLog, queue, enqueued, drainAt, pass, runs, webhookQueue,
                 pendingWebhooks, queueRows, logRows, pending, loads, clears>>

Callers == {"page", "clear"}

NextQueue ==
  \/ Enqueue
  \/ DrainStart
  \/ \E ok \in BOOLEAN : DrainHandle(ok)
  \/ DrainSkip
  \/ DrainEnd
  \/ LoadAllStatus
  \/ RefreshLog
  \/ \E owner \in Callers : QueueLoaded(owner)
  \/ \E owner \in Callers : QueueLoadFails(owner)
  \/ \E owner \in Callers : LogLoaded(owner)
  \/ \E owner \in Callers : LogLoadFails(owner)
  \/ ClearWebhookQueue
  \/ ClearDeleted
  \/ ClearFails

SpecQueue == InitQueue /\ [][NextQueue]_vars

\* the status page with an operator who may decline the confirm dialog, the
\* queue filling while no consumer runs
NextClear ==
  \/ Enqueue
  \/ LoadAllStatus
  \/ RefreshLog
  \/ \E owner \in Callers : QueueLoaded(owner)
  \/ \E owner \in Callers : QueueLoadFails(owner)
  \/ \E owner \in Callers : LogLoaded(owner)
  \/ \E owner \in Callers : LogLoadFails(owner)
  \/ ClearWebhookQueue
  \/ ClearDeclined
  \/ ClearDeleted
  \/ ClearFails

SpecClear == InitQueue /\ [][NextClear]_vars

\* ------------------------------------------------------------------------
\* utils.generateUUID
\* ------------------------------------------------------------------------
Hex == <<"0", "1", "2", "3", "4", "5", "6", "7", "8", "9", "a", "b", "c", "d",
         "e", "f">>

\* "xxxxxxxx-xxxx-4xxx-yxxx-xxxxxxxxxxxx"
UuidTemplate ==
  <<"x", "x", "x", "x", "x", "x", "x", "x", "-", "x", "x", "x", "x",
    "-", "4", "x", "x", "x", "-", "y", "x", "x", "x", "-", "x", "x",
    "x", "x", "x", "x", "x", "x", "x", "x", "x", "x">>

\* the number of the draw that replaces position i: replace() calls the
\* function once for every x and y, from left to right
DrawAt(i) == Cardinality({j \in 1..i : UuidTemplate[j] \in {"x", "y"}})

DrawCount == DrawAt(Len(UuidTemplate))

\* runs of Math.random: the values (Math.random() * 16) | 0 that the
\* successive calls within one generateUUID give
RandomStreams ==
  {[n \in 1..DrawCount |-> (n * k) % 16] : k \in {1, 7}}

\* every placeholder replaced by the hex digit of r
generateUUIDPlain(rnd) ==
  [i \in 1..Len(UuidTemplate) |->
     IF UuidTemplate[i] \in {"x", "y"} THEN Hex[rnd[DrawAt(i)] + 1]
     ELSE UuidTemplate[i]]

\* generateUUID with Math.random returning the values of rnd: an x becomes the
\* hex digit of r, a y the hex digit of (r & 0x3) | 0x8
generateUUID(rnd) ==
  [i \in 1..Len(UuidTemplate) |->
     LET c == UuidTemplate[i]
         r == rnd[DrawAt(i)]
     IN IF c = "x" THEN Hex[r + 1]
        ELSE IF c = "y" THEN Hex[((r % 4) + 8) + 1]
        ELSE c]

\* runs of Math.random in which every draw takes every value
UuidStreams ==
  {[n \in 1..DrawCount |-> (a * n + b) % 16] : a \in 0..15, b \in 0..15}

\* a call of utils.generateUUID
GenerateUuid(rnd) ==
  /\ uuid' = generateUUID(rnd)
  /\ UNCHANGED <<shown, overlayVars, viewVars>>
  /\ UNCHANGED <<linkVars, overlays, webhookVars, brokerVars, corrVars, regVars>>

NextUuid == \E rnd \in UuidStreams : GenerateUuid(rnd)

SpecUuid == InitQueue /\ [][NextUuid]_vars

\* ------------------------------------------------------------------------
\* What the pages report after create-and-link
\* ------------------------------------------------------------------------
LinkingResults == {"linked", "pending", "failed"}

\* POST /api/care-context/create-and-link -> { localContext, gatewayResponse }
CreateAndLinkResponse(c, result) ==
  [localContext |-> [contextId |-> c, linkingStatus |-> result],
   gatewayResponse |-> [status |-> result]]

\* result.field of a JavaScript object
Field(obj, name) == IF name \in DOMAIN obj THEN obj[name] ELSE "undefined"

\* handleCreateCareContext: the toast chosen from result.status and
\* result.linking_status
ContextPageMessage(result) ==
  IF Field(result, "status") = "success"
       \/ Field(result, "linking_status") = "linked"
  THEN "linked"
  ELSE IF Field(result, "linking_status") = "pending" THEN "pending"
  ELSE "failed"

\* createAndLinkCareContext of the health-record page: the toast chosen from
\* response.gatewayResponse.status
RecordPageMessage(response) ==
  IF "gatewayResponse" \in DOMAIN response
  THEN CalMessage(response.gatewayResponse.status)
  ELSE CalMessage("undefined")

\* a create-and-link call of one of the two pages is answered
CreateAndLinkAnswered(page, c, result) ==
  /\ Len(shown) < MaxAnswers
  /\ shown' = Append(shown,
       [page |-> page, result |-> result,
        message |-> IF page = "care-contexts"
                    THEN ContextPageMessage(CreateAndLinkResponse(c, result))
                    ELSE RecordPageMessage(CreateAndLinkResponse(c, result))])
  /\ UNCHANGED <<uuid, overlayVars, viewVars>>
  /\ UNCHANGED <<linkVars, overlays, webhookVars, brokerVars, corrVars, regVars>>

NextAnswers ==
  \E page \in {"care-contexts", "health-records"}, c \in 1..2,
     result \in LinkingResults : CreateAndLinkAnswered(page, c, result)

SpecAnswers == InitQueue /\ [][NextAnswers]_vars

\* ------------------------------------------------------------------------
\* utils.showLoading / utils.hideLoading on the document
\* ------------------------------------------------------------------------
\* every element with the id removed
RemoveAllOverlays(list) == <<>>

\* hideLoading: getElementById gives the first loadingOverlay of the document,
\* which is removed
RemoveOverlay(list) == IF list = <<>> THEN list ELSE Tail(list)

\* What a handler does to the overlay between two awaits, for each of its
\* paths: the calls made when it starts, then those made each time it resumes.
\* createAndLinkCareContext called by handleVisitSelection: showLoading, the
\* awaited call, hideLoading (response with or without contextId, or catch)
SelectPath == <<<<"show">>, <<"hide">>>>

\* handleCreateHealthRecord returning from its validation
SaveRejectedPath == <<<<>>>>

\* handleCreateHealthRecord whose create request fails
SaveFailsPath == <<<<"show">>, <<"hide">>>>

\* handleCreateHealthRecord with a care context selected: create, then
\* loadHealthRecords (showLoading ... finally hideLoading), then finally
SavePath == <<<<"show">>, <<"show">>, <<"hide", "hide">>>>

\* the same with createAndLinkCareContext nested as step 2
SaveRetryPath == <<<<"show">>, <<"show">>, <<"hide", "show">>, <<"hide", "hide">>>>

\* handleRegisterPatient: register, hideLoading, then loadPatients
RegisterPath == <<<<"show">>, <<"hide">>, <<>>>>

\* handleRegisterPatient whose register request fails
RegisterFailsPath == <<<<"show">>, <<"hide">>>>

HandlerPaths ==
  {[kind |-> "select", path |-> SelectPath],
   [kind |-> "save", path |-> SaveRejectedPath],
   [kind |-> "save", path |-> SaveFailsPath],
   [kind |-> "save", path |-> SavePath],
   [kind |-> "save", path |-> SaveRetryPath],
   [kind |-> "register", path |-> RegisterPath],
   [kind |-> "register", path |-> RegisterFailsPath]}

\* handler o is still running
InFlight(o) == pageOps[o].pos <= Len(pageOps[o].path)

\* the calls of one stretch applied to the document: the overlays left, and
\* whether a hideLoading of o took the overlay of another running handler
RECURSIVE RunCalls(_, _, _, _)
RunCalls(list, o, callSeq, took) ==
  IF callSeq = <<>> THEN [list |-> list, took |-> took]
  ELSE IF Head(callSeq) = "show"
  THEN RunCalls(Append(list, o), o, Tail(callSeq), took)
  ELSE RunCalls(RemoveOverlay(list), o, Tail(callSeq),
                took \/ (list # <<>> /\ Head(list) # o /\ Head(list) \in DOMAIN pageOps
                           /\ InFlight(Head(list))))

\* a handler starts and runs up to its first await
StartHandler(h) ==
  /\ Len(pageOps) < MaxPageOps
  /\ LET o == Len(pageOps) + 1
         r == RunCalls(overlayList, o, h.path[1], FALSE)
     IN /\ overlayList' = r.list
        /\ pageOps' = Append(pageOps,
             [kind |-> h.kind, path |-> h.path, pos |-> 2, took |-> r.took])
  /\ UNCHANGED <<utilVars, viewVars, linkVars, overlays, webhookVars, brokerVars, corrVars,
                 regVars>>

\* the awaited call of handler o returned: it runs up to its next await
ResumeHandler(o) ==
  /\ o \in DOMAIN pageOps
  /\ InFlight(o)
  /\ LET r == RunCalls(overlayList, o, pageOps[o].path[pageOps[o].pos],
                       pageOps[o].took)
     IN /\ overlayList' = r.list
        /\ pageOps' = [pageOps EXCEPT ![o] =
             [@ EXCEPT !.pos = @ + 1, !.took = r.took]]
  /\ UNCHANGED <<utilVars, viewVars, linkVars, overlays, webhookVars, brokerVars, corrVars,
                 regVars>>

NextOverlays ==
  \/ \E h \in HandlerPaths : StartHandler(h)
  \/ \E o \in 1..MaxPageOps : ResumeHandler(o)

SpecOverlays == InitQueue /\ [][NextOverlays]_vars

\* ------------------------------------------------------------------------
\* Status page: viewWebhookDetails
\* ------------------------------------------------------------------------
\* if (index >= webhookQueue.length) showError("Webhook not found");
\* otherwise the modal is filled from webhookQueue[index]
ModalFor(q, row) ==
  IF row.index >= Len(q)
  THEN [found |-> FALSE, id |-> 0]
  ELSE [found |-> TRUE, id |-> q[row.index + 1].id]

\* the view buttons on the page: onclick="viewWebhookDetails(${index})"
ViewButtons ==
  {[list |-> "queue", index |-> queueRows[i].index, id |-> queueRows[i].id] :
     i \in DOMAIN queueRows}
  \cup {[list |-> "log", index |-> logRows[i].index, id |-> logRows[i].id] :
     i \in DOMAIN logRows}

\* a click on the view button of a row
ViewWebhookDetails(row) ==
  /\ row \in ViewButtons
  /\ Len(details) < MaxClicks
  /\ details' = Append(details, [row |-> row, modal |-> ModalFor(webhookQueue, row)])
  /\ UNCHANGED <<coreVars, maskVars, abdmVars, searchVars>>

\* the status page with its refreshes, the clear button and the view buttons
NextDetails ==
  \/ NextClear
  \/ \E list \in {"queue", "log"}, i \in 0..(MaxEvents), id \in 1..(MaxEvents + 1) :
       ViewWebhookDetails([list |-> list, index |-> i, id |-> id])

SpecDetails == InitQueue /\ [][NextDetails]_vars

\* ------------------------------------------------------------------------
\* Patient search by mobile: api.patients.search and its callers
\* ------------------------------------------------------------------------
\* String.prototype.trim, at the front
RECURSIVE TrimLeft(_)
TrimLeft(str) ==
  IF str # <<>> /\ Head(str) = " " THEN TrimLeft(Tail(str)) ELSE str

\* String.prototype.trim, at the end
RECURSIVE TrimRight(_)
TrimRight(str) ==
  IF str # <<>> /\ str[Len(str)] = " "
  THEN TrimRight(SubSeq(str, 1, Len(str) - 1))
  ELSE str

Trim(str) == TrimRight(TrimLeft(str))

\* mobile numbers as they are stored and typed, character by character
Mobile1 == <<"9", "8", "7", "6", "5", "4", "3", "2", "1", "0">>

Mobile2 == <<"9", "8", "7", "6", "5", "4", "3", "2", "1", "1">>

StoredMobiles == {Mobile1, Mobile2}

TypedMobiles == {Mobile1, Mobile2, Mobile1 \o <<" ">>, <<"9", "8">>}

PatientNames == {"Asha", "Ravi"}

\* the ids the server hands out, in order
PatientIds == <<"P1", "P2", "P3">>

SearchPages == {"patients", "records", "care-contexts"}

\* POST /api/patient/register as the server stores it
RegisterPatient(name, mobile) ==
  /\ Len(patientList) < MaxPatients
  /\ Len(patientList) < Len(PatientIds)
  /\ patientList' = Append(patientList,
       [patientId |-> PatientIds[Len(patientList) + 1], name |-> name,
        mobile |-> mobile])
  /\ UNCHANGED <<coreVars, detailVars, maskVars, abdmVars, searchResults>>

\* patients.find((p) => String(p.mobile).trim() === String(mobile).trim()):
\* the place of the first match, 0 for undefined
FindByMobile(patients, mobile) ==
  LET hits == {i \in DOMAIN patients : Trim(patients[i].mobile) = Trim(mobile)}
  IN IF hits = {} THEN 0 ELSE CHOOSE i \in hits : \A j \in hits : i <= j

\* api.patients.search: { found: true, patient } or { found: false }
Search(patients, mobile) ==
  IF FindByMobile(patients, mobile) = 0
  THEN [found |-> FALSE]
  ELSE [found |-> TRUE, patient |-> patients[FindByMobile(patients, mobile)]]

\* a value in a condition: undefined is falsy, every object is truthy
Truthy(obj) == "undefined" \notin DOMAIN obj

\* ${value} in a template literal
Text(obj, name) ==
  IF name \in DOMAIN obj THEN obj[name] ELSE "undefined"

\* patients page, handleSearchPatient: what searchResults holds at the end
PatientsPageSearch(mobile, ok) ==
  IF ~ok THEN [text |-> "Error", name |-> "", id |-> "", selectable |-> FALSE]
  ELSE LET response == Search(patientList, Trim(mobile))
       IN IF response.found
          THEN [text |-> "Patient Found",
                name |-> Text(response.patient, "name"),
                id |-> Text(response.patient, "patientId"),
                selectable |-> TRUE]
          ELSE [text |-> "No patient found", name |-> "", id |-> "",
                selectable |-> FALSE]

\* health-records.js, handleSearchPatient (both of them): the validation, the
\* search and the card or the warning it renders
RecordsPageSearch(mobile, ok) ==
  IF Len(mobile) # MobileLength
  THEN [text |-> "invalid", name |-> "", id |-> "", selectable |-> FALSE]
  ELSE IF ~ok
  THEN [text |-> "Search failed", name |-> "", id |-> "", selectable |-> FALSE]
  ELSE LET patient == Search(patientList, mobile)
       IN IF Truthy(patient)
          THEN [text |-> "card",
                name |-> Text(patient, "name"),
                id |-> Text(patient, "patient_id"),
                selectable |-> TRUE]
          ELSE [text |-> "No patient found", name |-> "", id |-> "",
                selectable |-> FALSE]

\* a search on one of the pages, the list request succeeding or not
HandleSearchPatient(page, mobile, ok) ==
  /\ Len(searchResults) < MaxSearches
  /\ searchResults' = Append(searchResults,
       [page |-> page, mobile |-> mobile, ok |-> ok,
        match |-> FindByMobile(patientList, mobile),
        patients |-> patientList,
        rendered |-> IF page = "patients"
                     THEN PatientsPageSearch(mobile, ok)
                     ELSE RecordsPageSearch(mobile, ok)])
  /\ UNCHANGED <<coreVars, detailVars, maskVars, abdmVars, patientList>>

NextSearch ==
  \/ \E name \in PatientNames, mobile \in StoredMobiles :
       RegisterPatient(name, mobile)
  \/ \E page \in SearchPages, mobile \in TypedMobiles, ok \in BOOLEAN :
       HandleSearchPatient(page, mobile, ok)

SpecSearch == InitQueue /\ [][NextSearch]_vars

\* ------------------------------------------------------------------------
\* Dashboard: checkABDMStatus
\* ------------------------------------------------------------------------
\* what a health request can come to: a body with status "ok", a body with
\* another status, or a thrown error (network failure, HTTP status not ok)
HealthAnswers == {"ok", "not-ok", "throws"}

\* checkABDMStatus is called by loadDashboardData, at load and every 30 s,
\* and awaits api.healthCheck()
CheckABDMStatus ==
  /\ Len(abdmRuns) < MaxChecks
  /\ abdmRuns' = Append(abdmRuns,
       [pc |-> "health", local |-> "", gateway |-> "", before |-> "",
        display |-> ""])
  /\ UNCHANGED <<coreVars, detailVars, maskVars, searchVars, abdmStatus>>

\* api.healthCheck() answered: with status "ok" the run goes on to the
\* gateway check, a thrown error reaches the outer catch, and any other
\* status leaves the function without a statement run
LocalHealthAnswered(i, answer) ==
  /\ i \in DOMAIN abdmRuns
  /\ abdmRuns[i].pc = "health"
  /\ abdmStatus' = IF answer = "throws" THEN "Offline" ELSE abdmStatus
  /\ abdmRuns' = [abdmRuns EXCEPT ![i] =
       IF answer = "ok"
       THEN [@ EXCEPT !.pc = "gateway", !.local = answer]
       ELSE [@ EXCEPT !.pc = "done", !.local = answer,
                      !.before = abdmStatus, !.display = abdmStatus']]
  /\ UNCHANGED <<coreVars, detailVars, maskVars, searchVars>>

\* api.gatewayHealthCheck() answered: "Connected" with status "ok"; another
\* status throws into the inner catch, which a thrown error reaches as well
GatewayHealthAnswered(i, answer) ==
  /\ i \in DOMAIN abdmRuns
  /\ abdmRuns[i].pc = "gateway"
  /\ abdmStatus' = IF answer = "ok" THEN "Connected" ELSE "Gateway Down"
  /\ abdmRuns' = [abdmRuns EXCEPT ![i] =
       [@ EXCEPT !.pc = "done", !.gateway = answer, !.before = abdmStatus,
                 !.display = abdmStatus']]
  /\ UNCHANGED <<coreVars, detailVars, maskVars, searchVars>>

NextAbdm ==
  \/ CheckABDMStatus
  \/ \E i \in 1..MaxChecks, answer \in HealthAnswers : LocalHealthAnswered(i, answer)
  \/ \E i \in 1..MaxChecks, answer \in HealthAnswers : GatewayHealthAnswered(i, answer)

SpecAbdm == InitQueue /\ [][NextAbdm]_vars

\* ------------------------------------------------------------------------
\* Patients page: the Aadhaar number in the table and in the details modal
\* ------------------------------------------------------------------------
Min(a, b) == IF a < b THEN a ELSE b

Max(a, b) == IF a > b THEN a ELSE b

\* str.slice(0, end): the first end characters, all of a shorter string
SliceFirst(str, end) == SubSeq(str, 1, Min(end, Len(str)))

\* str.slice(-n): the last n characters, all of a shorter string
SliceLast(str, n) == SubSeq(str, Max(Len(str) - n, 0) + 1, Len(str))

Stars == <<"*", "*", "*", "*">>

\* patient.aadhaar ? patient.aadhaar.slice(0, 4) + "****" +
\* patient.aadhaar.slice(-4) : <placeholder>
AadhaarText(aadhaar) ==
  IF aadhaar = <<>>
  THEN <<"-">>
  ELSE SliceFirst(aadhaar, 4) \o Stars \o SliceLast(aadhaar, 4)

\* the stored values tried: the runs of consecutive digits of one number
AadhaarNumber == [i \in 1..MaxAadhaarLen |-> Hex[(i % 10) + 1]]

AadhaarValues ==
  {SubSeq(AadhaarNumber, i, j) : i \in 1..MaxAadhaarLen, j \in 0..MaxAadhaarLen}

\* loadPatients renders the row of a patient
LoadPatients(aadhaar) ==
  /\ aadhaarCell' = [view |-> "table", aadhaar |-> aadhaar,
                     text |-> AadhaarText(aadhaar)]
  /\ UNCHANGED <<coreVars, detailVars, abdmVars, searchVars>>

\* viewPatient fills the details modal
ViewPatient(aadhaar) ==
  /\ aadhaarCell' = [view |-> "modal", aadhaar |-> aadhaar,
                     text |-> AadhaarText(aadhaar)]
  /\ UNCHANGED <<coreVars, detailVars, abdmVars, searchVars>>

NextMask ==
  \/ \E aadhaar \in AadhaarValues : LoadPatients(aadhaar)
  \/ \E aadhaar \in AadhaarValues : ViewPatient(aadhaar)

SpecMask == InitQueue /\ [][NextMask]_vars

\* ------------------------------------------------------------------------
\* Status page: checkGatewayStatus, loadBridgeStatus, testGatewayConnection
\* ------------------------------------------------------------------------
Responses == {"ok", "notOk", "throws"}

OpIds == DOMAIN ops

NewOp(fn, pc, parent, call) ==
  [fn |-> fn, pc |-> pc, parent |-> parent, call |-> call, token |-> 0,
   authResult |-> "none", shownBridge |-> "", shownAuth |-> "",
   outcome |-> "none"]

\* fetch("http://127.0.0.1:8000/health", ...) with the given headers
HealthCall(o, headers) ==
  [op |-> o, endpoint |-> "/health", headers |-> headers, requestId |-> <<>>,
   token |-> 0, result |-> "pending"]

\* POST /api/auth/session as loadBridgeStatus and testGatewayConnection send it
AuthCall(o, rnd) ==
  [op |-> o, endpoint |-> "/api/auth/session",
   headers |-> {"Content-Type", "REQUEST-ID", "TIMESTAMP", "X-CM-ID"},
   requestId |-> generateUUID(rnd), token |-> 0, result |-> "pending"]

\* GET /api/bridge/list as loadBridgeStatus sends it
BridgeListCall(o, token) ==
  [op |-> o, endpoint |-> "/api/bridge/list",
   headers |-> {"Content-Type", "Authorization"}, requestId |-> <<>>,
   token |-> token, result |-> "pending"]

\* the response of the call that o waits for is recorded
Answered(o, res) == [calls EXCEPT ![ops[o].call].result = res]

\* the part of loadAllStatus that calls the broker: checkGatewayStatus and
\* loadBridgeStatus are started, each sending its first request (the webhook
\* loads of loadAllStatus are the subject of SpecQueue)
StartBrokerLoads(parent, oldOps, oldCalls, rnd) ==
  /\ ops' = oldOps \o
       <<NewOp("checkGatewayStatus", "health", parent, Len(oldCalls) + 1),
         NewOp("loadBridgeStatus", "auth", parent, Len(oldCalls) + 2)>>
  /\ calls' = oldCalls \o
       <<HealthCall(Len(oldOps) + 1, {"Content-Type"}),
         AuthCall(Len(oldOps) + 2, rnd)>>

\* loadAllStatus on DOMContentLoaded and every 15 seconds
LoadBrokerStatus(rnd) ==
  /\ Len(ops) + 2 <= MaxOps
  /\ statusRuns' = statusRuns + 1
  /\ StartBrokerLoads(0, ops, calls, rnd)
  /\ UNCHANGED <<linkVars, webhookVars, nodeVars, overlays, gatewayStatus, bridgeStatus,
                 authStatus, tokens>>

\* testGatewayConnection up to its first await
TestGatewayConnection ==
  /\ Len(ops) + 3 <= MaxOps
  /\ statusRuns' = statusRuns + 1
  /\ overlays' = showLoading(overlays)
  /\ ops' = Append(ops, NewOp("testGatewayConnection", "health", 0, Len(calls) + 1))
  /\ calls' = Append(calls, HealthCall(Len(ops) + 1, {}))
  /\ UNCHANGED <<linkVars, webhookVars, nodeVars, gatewayStatus, bridgeStatus, authStatus,
                 tokens>>

\* what checkGatewayStatus writes into gatewayStatus
GatewayStatusText(res) ==
  IF res = "ok" THEN "Online" ELSE IF res = "notOk" THEN "Error" ELSE "Offline"

\* the health request returned
HealthResponds(o, res, rnd) ==
  /\ o \in OpIds
  /\ ops[o].pc = "health"
  /\ IF ops[o].fn = "checkGatewayStatus"
     THEN /\ gatewayStatus' = GatewayStatusText(res)
          /\ ops' = [ops EXCEPT ![o] = [@ EXCEPT !.pc = "done"]]
          /\ calls' = Answered(o, res)
          /\ UNCHANGED overlays
     ELSE IF res = "ok"
     THEN /\ ops' = [ops EXCEPT ![o] =
                [@ EXCEPT !.pc = "auth", !.call = Len(calls) + 1]]
          /\ calls' = Append(Answered(o, res), AuthCall(o, rnd))
          /\ UNCHANGED <<gatewayStatus, overlays>>
     ELSE /\ ops' = [ops EXCEPT ![o] = [@ EXCEPT !.pc = "done", !.outcome = "error"]]
          /\ calls' = Answered(o, res)
          /\ overlays' = hideLoading(overlays)
          /\ UNCHANGED gatewayStatus
  /\ UNCHANGED <<linkVars, webhookVars, nodeVars, bridgeStatus, authStatus, tokens,
                 statusRuns>>

\* authResponse.ok with every response taken as a success
AuthOkAlways(res) == TRUE

\* authResponse.ok
AuthOk(res) == res = "ok"

\* authData.accessToken: the token a successful session response carries; any
\* other body has no such field
AccessToken(res) == IF res = "ok" THEN tokens + 1 ELSE 0

\* what loadBridgeStatus shows when it makes no bridge-list call
ShowBridge(o, bridge, auth, res) ==
  /\ bridgeStatus' = bridge
  /\ authStatus' = auth
  /\ ops' = [ops EXCEPT ![o] =
       [@ EXCEPT !.pc = "done", !.authResult = res, !.shownBridge = bridge,
                 !.shownAuth = auth]]
  /\ calls' = Answered(o, res)
  /\ UNCHANGED overlays

\* the session request returned
AuthResponds(o, res, rnd) ==
  /\ o \in OpIds
  /\ ops[o].pc = "auth"
  /\ tokens' = IF res = "ok" THEN tokens + 1 ELSE tokens
  /\ IF ops[o].fn = "loadBridgeStatus"
     THEN IF res = "throws"
          THEN ShowBridge(o, "Unavailable", "Error", res)
          ELSE IF AuthOk(res)
          THEN /\ ops' = [ops EXCEPT ![o] =
                    [@ EXCEPT !.pc = "list", !.authResult = res,
                              !.token = AccessToken(res),
                              !.call = Len(calls) + 1]]
               /\ calls' = Append(Answered(o, res),
                                  BridgeListCall(o, AccessToken(res)))
               /\ UNCHANGED <<bridgeStatus, authStatus, overlays>>
          ELSE ShowBridge(o, "Auth Failed", "Failed", res)
     ELSE IF res # "throws" /\ AuthOk(res)
     THEN /\ StartBrokerLoads(o,
               [ops EXCEPT ![o] =
                  [@ EXCEPT !.pc = "loadAll", !.authResult = res,
                            !.token = AccessToken(res), !.outcome = "success"]],
               Answered(o, res), rnd)
          /\ UNCHANGED <<bridgeStatus, authStatus, overlays>>
     ELSE /\ ops' = [ops EXCEPT ![o] =
               [@ EXCEPT !.pc = "done", !.authResult = res, !.outcome = "error"]]
          /\ calls' = Answered(o, res)
          /\ overlays' = hideLoading(overlays)
          /\ UNCHANGED <<bridgeStatus, authStatus>>
  /\ UNCHANGED <<linkVars, webhookVars, nodeVars, gatewayStatus, statusRuns>>

\* what loadBridgeStatus shows after the bridge-list request
BridgeStatusText(res) ==
  IF res = "ok" THEN "Active" ELSE IF res = "notOk" THEN "Error" ELSE "Unavailable"

AuthStatusText(res) ==
  IF res = "ok" THEN "Authenticated" ELSE IF res = "notOk" THEN "Failed" ELSE "Error"

\* the bridge-list request returned
ListResponds(o, res) ==
  /\ o \in OpIds
  /\ ops[o].pc = "list"
  /\ bridgeStatus' = BridgeStatusText(res)
  /\ authStatus' = AuthStatusText(res)
  /\ ops' = [ops EXCEPT ![o] =
       [@ EXCEPT !.pc = "done", !.shownBridge = BridgeStatusText(res),
                 !.shownAuth = AuthStatusText(res)]]
  /\ calls' = Answered(o, res)
  /\ UNCHANGED <<linkVars, webhookVars, nodeVars, overlays, gatewayStatus, tokens,
                 statusRuns>>

\* await loadAllStatus() of testGatewayConnection returned: finally
TestReturns(o) ==
  /\ o \in OpIds
  /\ ops[o].pc = "loadAll"
  /\ \A c \in OpIds : ops[c].parent = o => ops[c].pc = "done"
  /\ ops' = [ops EXCEPT ![o] = [@ EXCEPT !.pc = "done"]]
  /\ overlays' = hideLoading(overlays)
  /\ UNCHANGED <<linkVars, webhookVars, nodeVars, calls, gatewayStatus, bridgeStatus,
                 authStatus, tokens, statusRuns>>

NextBroker ==
  \/ \E rnd \in RandomStreams : LoadBrokerStatus(rnd)
  \/ TestGatewayConnection
  \/ \E o \in 1..MaxOps, res \in Responses, rnd \in RandomStreams :
       HealthResponds(o, res, rnd)
  \/ \E o \in 1..MaxOps, res \in Responses, rnd \in RandomStreams :
       AuthResponds(o, res, rnd)
  \/ \E o \in 1..MaxOps, res \in Responses : ListResponds(o, res)
  \/ \E o \in 1..MaxOps : TestReturns(o)

SpecBroker == InitQueue /\ [][NextBroker]_vars

\* ------------------------------------------------------------------------
\* Data Request/Response Correlator and the webhook handlers (spec 4.2, 4.3)
\* ------------------------------------------------------------------------
linkRest == <<visitStatus, visitsLoaded, allVisits, urlTimer, pageVars, tasks,
              sent, budget>>

\* the record sets a data-delivery event may carry
Payloads ==
  {<<[patientId |-> "P1", visitId |-> "V1"]>>,
   <<[patientId |-> "P2", visitId |-> "V2"]>>}

\* requestIds an event may name: those of the node and one it never issued
EventRequestIds == 1..(MaxRequests + 1)

\* the events the transport layer may hand over, before eventId is assigned
DeliveryEvents ==
  [eventId : {0}, type : {"data-delivery"}, requestId : EventRequestIds,
   contextId : {0}, status : {""}, records : Payloads]

LinkingEvents ==
  [eventId : {0}, type : {"linking"}, requestId : {0}, contextId : {1},
   status : {"linked", "failed"}, records : {<<>>}]

Events == DeliveryEvents \cup LinkingEvents

\* the state the handlers work on
Node == [contexts |-> careContexts, records |-> healthRecords,
         requests |-> dataRequests]

\* look-up by requestId, whatever the status of the request found
MatchesKnown(requests, e) == e.requestId \in DOMAIN requests

\* look-up that also takes a request already fulfilled
MatchesFulfilledToo(requests, e) ==
  /\ e.requestId \in DOMAIN requests
  /\ requests[e.requestId].status \in {"awaiting-response", "fulfilled"}

\* 4.3: the DataRequest is found and is in awaiting-response
Matches(requests, e) ==
  /\ e.requestId \in DOMAIN requests
  /\ requests[e.requestId].status = "awaiting-response"

\* the records attached with the status left as it was
FulfilKeepsStatus(request, e) ==
  [request EXCEPT !.records = request.records \o e.records]

\* 4.3: attach the delivered records and transition to fulfilled
Fulfil(request, e) ==
  [request EXCEPT !.status = "fulfilled",
                  !.records = request.records \o e.records]

\* 4.2: data-delivery materializes the HealthRecord references; 4.3: a response
\* that finds no request awaiting it is discarded
HandleDataDelivery(node, e) ==
  IF Matches(node.requests, e)
  THEN [node EXCEPT
          !.requests = [@ EXCEPT ![e.requestId] = Fulfil(@, e)],
          !.records = @ \o e.records]
  ELSE node

\* 4.2: linking updates a CareContext's status; 4.1 steps (3) and (4)
HandleLinking(node, e) ==
  IF e.contextId \in DOMAIN node.contexts
  THEN [node EXCEPT !.contexts = [@ EXCEPT ![e.contextId] =
          [@ EXCEPT !.linkingStatus = e.status,
                    !.linkingError = IF e.status = "failed" THEN "bind failed" ELSE "",
                    !.binding = FALSE, !.retry = FALSE]]]
  ELSE node

\* the type-specific handler
Handle(node, e) ==
  IF e.type = "data-delivery" THEN HandleDataDelivery(node, e)
  ELSE HandleLinking(node, e)

\* what the request named by the event looked like when the event arrived
Seen(requests, e) ==
  IF e.type # "data-delivery" THEN "none"
  ELSE IF e.requestId \in DOMAIN requests THEN requests[e.requestId].status
  ELSE "unknown"

\* 4.3: a duplicate or stale delivery is logged, not an error surfaced
Reply(node, e) ==
  [result |-> IF Handle(node, e) = node THEN "discarded" ELSE "accepted",
   seen |-> Seen(node.requests, e)]

\* the consumer hands e to its handler
Receive(e) ==
  /\ Len(inbox) < MaxDeliveries
  /\ careContexts' = Handle(Node, e).contexts
  /\ healthRecords' = Handle(Node, e).records
  /\ dataRequests' = Handle(Node, e).requests
  /\ inbox' = Append(inbox, e)
  /\ replies' = Append(replies, Reply(Node, e))
  /\ UNCHANGED <<linkRest, overlays, webhookVars, brokerVars, regVars, auxVars>>

EventIds == {inbox[i].eventId : i \in DOMAIN inbox}

\* an event arrives for the first time
Deliver(e) ==
  /\ e \in Events
  /\ Receive([e EXCEPT !.eventId = Cardinality(EventIds) + 1])

\* at-least-once delivery: an event handled before is handled again
Redeliver(i) ==
  /\ i \in DOMAIN inbox
  /\ Receive(inbox[i])

\* Initiate: a fresh requestId, the DataRequest persisted as initiated
Initiate ==
  /\ Len(dataRequests) < MaxRequests
  /\ dataRequests' = Append(dataRequests, [status |-> "initiated", records |-> <<>>])
  /\ UNCHANGED <<linkVars, overlays, webhookVars, brokerVars, regVars, auxVars, inbox,
                 replies>>

\* the dispatch to the broker returned
Dispatched(r, ok) ==
  /\ r \in DOMAIN dataRequests
  /\ dataRequests[r].status = "initiated"
  /\ dataRequests' = [dataRequests EXCEPT ![r] =
       [@ EXCEPT !.status = IF ok THEN "awaiting-response" ELSE "failed"]]
  /\ UNCHANGED <<linkVars, overlays, webhookVars, brokerVars, regVars, auxVars, inbox,
                 replies>>

\* a deadline policy that marks requests of any status
MayTimeOutAlways(request) == TRUE

\* 4.3, 5: timed-out is accepted if the request is still awaiting-response
MayTimeOut(request) == request.status = "awaiting-response"

\* the caller's deadline policy marks the request timed-out
MarkTimedOut(r) ==
  /\ r \in DOMAIN dataRequests
  /\ MayTimeOut(dataRequests[r])
  /\ dataRequests[r].status # "timed-out"
  /\ dataRequests' = [dataRequests EXCEPT ![r] = [@ EXCEPT !.status = "timed-out"]]
  /\ UNCHANGED <<linkVars, overlays, webhookVars, brokerVars, regVars, auxVars, inbox,
                 replies>>

\* a node on which one create-and-link call has written its row
InitCorrelator ==
  /\ visitStatus = [v \in Visits |-> "Scheduled"]
  /\ visitsLoaded = FALSE
  /\ allVisits = {}
  /\ urlTimer = ""
  /\ visitSelect = ""
  /\ patientIdField = ""
  /\ visitIdField = ""
  /\ selectedVisit = ""
  /\ selectedCareContext = 0
  /\ overlays = 0
  /\ tasks = <<>>
  /\ careContexts = <<NewContext("P1", "V1")>>
  /\ healthRecords = <<>>
  /\ sent = {}
  /\ budget = MaxTasks
  /\ InitStatusPage

NextCorrelator ==
  \/ Initiate
  \/ \E r \in 1..MaxRequests, ok \in BOOLEAN : Dispatched(r, ok)
  \/ \E e \in Events : Deliver(e)
  \/ \E i \in 1..MaxDeliveries : Redeliver(i)
  \/ \E r \in 1..MaxRequests : MarkTimedOut(r)

SpecCorrelator == InitCorrelator /\ [][NextCorrelator]_vars

\* ------------------------------------------------------------------------
\* Session/Bridge Registry (spec 4.4)
\* ------------------------------------------------------------------------
BridgeIds == {"B1", "B2"}
Roles == {"HIP", "HIU"}
CallbackUrls == {"http://h1/webhook", "http://h2/webhook"}

RegisterCalls == [bridgeId : BridgeIds, role : Roles, callbackUrl : CallbackUrls]

\* the rows held for a bridge
RowsOf(regs, b) == {i \in DOMAIN regs : regs[i].bridgeId = b}

\* a row written for every call
UpsertAppends(regs, call) == Append(regs, call)

\* idempotent upsert keyed on bridgeId: the existing registration is updated
Upsert(regs, call) ==
  IF RowsOf(regs, call.bridgeId) # {}
  THEN [i \in DOMAIN regs |->
          IF regs[i].bridgeId = call.bridgeId THEN call ELSE regs[i]]
  ELSE Append(regs, call)

\* Register(bridgeId, role, callbackUrl)
Register(call) ==
  /\ Len(registerLog) < MaxRegisters
  /\ registrations' = Upsert(registrations, call)
  /\ registerLog' = Append(registerLog, call)
  /\ UNCHANGED <<linkVars, overlays, webhookVars, brokerVars, corrVars, auxVars>>

\* the answer of Lookup for a bridge that has no registration
NotFound == [bridgeId |-> "not-found", role |-> "", callbackUrl |-> ""]

\* Lookup(bridgeId): the registration, or not-found
Lookup(b) ==
  IF RowsOf(registrations, b) = {} THEN NotFound
  ELSE registrations[CHOOSE i \in RowsOf(registrations, b) : TRUE]

NextRegistry == \E call \in RegisterCalls : Register(call)

SpecRegistry == InitQueue /\ [][NextRegistry]_vars

\* ------------------------------------------------------------------------
\* Properties of the health-records page and the linking engine
\* ------------------------------------------------------------------------
\* the CareContext rows of a patient
RowsOfPatient(pid) == {c \in CtxIds : careContexts[c].patientId = pid}

SuccessOutcomes == {"registered", "notifyPending"}

Thm_C2_ConcurrentCallsShareContext ==
  /\ \A t, u \in TaskIds :
       /\ tasks[t].calCtx # 0 /\ tasks[u].calCtx # 0
       /\ tasks[t].calPatient = tasks[u].calPatient
       /\ tasks[t].calVisit = tasks[u].calVisit
       => tasks[t].calCtx = tasks[u].calCtx
  /\ \A t \in TaskIds :
       tasks[t].calHow = "lost" =>
         Cardinality({c \in CtxIds :
            /\ careContexts[c].patientId = tasks[t].calPatient
            /\ careContexts[c].visitId = tasks[t].calVisit}) = 1

\* both calls passed the lookup before either wrote, and both were answered
Witness_C2 ==
  \E t, u \in TaskIds :
    /\ t # u
    /\ tasks[t].calHow = "created" /\ tasks[u].calHow = "lost"
    /\ tasks[t].calOutcome \in {"linked", "local"}
    /\ tasks[u].calOutcome \in {"linked", "local"}
    /\ tasks[t].calCtx = tasks[u].calCtx

\* C3: a CareContext's linkingStatus changes only pending -> linked,
\* pending -> failed, or failed -> linked while the bind attempt of a new
\* create-and-link call is under way; a linked context never changes.
StatusStepAllowed(row, to) ==
  \/ row.linkingStatus = "pending" /\ to \in {"linked", "failed"}
  \/ row.linkingStatus = "failed" /\ to = "linked" /\ row.binding /\ row.retry

Thm_C4_LinkFailureDoesNotBlockSave ==
  /\ \A t \in TaskIds :
       /\ tasks[t].kind = "save"
       /\ tasks[t].visit # "" /\ tasks[t].patientId # "" /\ tasks[t].fieldsOk
       => tasks[t].createIssued
  /\ \A c \in CtxIds :
       careContexts[c].linkingStatus = "failed" <=> careContexts[c].linkingError # ""

\* the call of the selection threw, the context is failed, and the record of a
\* save for the same visit was created
Witness_C4 ==
  \E s, t \in TaskIds :
    /\ tasks[s].kind = "select" /\ tasks[s].calOutcome = "failed"
    /\ tasks[t].kind = "save" /\ tasks[t].visit = tasks[s].visit
    /\ tasks[t].created \in DOMAIN healthRecords
    /\ \E c \in CtxIds :
         /\ careContexts[c].patientId = tasks[t].patientId
         /\ careContexts[c].linkingStatus = "failed"
         /\ careContexts[c].linkingError # ""

\* C5: once the record was created, the save never reports an error and ends
\* as a success, and the record stays.
Thm_C5_NoRollbackAfterCreate ==
  \A t \in TaskIds :
    tasks[t].kind = "save" /\ tasks[t].created # 0 =>
      /\ tasks[t].created \in DOMAIN healthRecords
      /\ tasks[t].outcome # "error"
      /\ tasks[t].pc \in {"load", "done"} => tasks[t].outcome \in SuccessOutcomes

\* a save that ended after its care-context retry had failed
Witness_C5 ==
  \E t \in TaskIds :
    /\ tasks[t].kind = "save" /\ tasks[t].pc = "done"
    /\ tasks[t].created \in DOMAIN healthRecords
    /\ tasks[t].calOutcome = "failed"
    /\ tasks[t].outcome \in SuccessOutcomes

\* C6: every save whose record was created has issued a gateway notification
\* for it by the time it reloads the record list.
Cex_C6_NotificationAttempted ==
  \A t \in TaskIds :
    /\ tasks[t].kind = "save" /\ tasks[t].created # 0
    /\ tasks[t].pc \in {"load", "done"}
    => tasks[t].notifyCalls >= 1

\* C7: one visit selection or one record save issues at most one
\* create-and-link call and at most one notification call.
Thm_C7_NoAutomaticRetry ==
  \A t \in TaskIds :
    /\ tasks[t].calCalls <= 1
    /\ tasks[t].notifyCalls <= 1
    /\ tasks[t].kind = "select" => ~tasks[t].createIssued

\* a handler that ended after its only create-and-link call had failed
Witness_C7 ==
  \E t \in TaskIds :
    /\ tasks[t].pc = "done"
    /\ tasks[t].calOutcome = "failed"
    /\ tasks[t].calCalls = 1

\* C8: no create-and-link or record-create request is issued for a visit that
\* is Completed or Cancelled when the request is sent.
Cex_C8_NoRequestForTerminalVisit ==
  \A e \in sent : e.status \notin TerminalStatuses

\* in enqueue order: ids are assigned in the order of enqueueing
InEnqueueOrder(q) == \A i, j \in DOMAIN q : i < j => q[i].id < q[j].id

\* entry e is the event enqueued under its id, but for the processed flag
OnlyProcessedChanged(e) ==
  /\ e.id \in DOMAIN enqueued
  /\ [e EXCEPT !.processed = FALSE] = enqueued[e.id]

\* C9: the webhook queue keeps its entries in enqueue order, on the node and
\* in every listing the status page shows (positions 0, 1, ... down the list);
\* within one drain the consumer handles entries in that order and, in a
\* history of enqueue and drain operations alone (no clear-queue), passes over
\* no waiting entry; an entry differs from the event as enqueued in its
\* processed flag only.
Thm_C9_QueueKeepsEnqueueOrder ==
  /\ InEnqueueOrder(queue)
  /\ InEnqueueOrder(webhookQueue)
  /\ InEnqueueOrder(queueRows)
  /\ InEnqueueOrder(logRows)
  /\ \A i \in DOMAIN queueRows : queueRows[i].index = i - 1
  /\ \A i \in DOMAIN queue : OnlyProcessedChanged(queue[i])
  /\ \A i \in DOMAIN webhookQueue : OnlyProcessedChanged(webhookQueue[i])
  /\ \A i, j \in DOMAIN runs :
       i < j => /\ runs[i].pass <= runs[j].pass
                /\ runs[i].pass = runs[j].pass => runs[i].id < runs[j].id
  /\ \A j \in DOMAIN runs, k \in DOMAIN queue :
       /\ clears = 0
       /\ runs[j].pass = pass
       /\ queue[k].id < runs[j].id
       /\ ~queue[k].processed
       => \E i \in 1..(j - 1) : runs[i].pass = pass /\ runs[i].id = queue[k].id

\* two entries handled in one drain, the first one failing, and listed; no
\* clear-queue so far
Witness_C9 ==
  /\ clears = 0
  /\ Len(queue) = 2
  /\ Len(queueRows) = 2
  /\ Len(logRows) = 2
  /\ ~queue[1].processed /\ queue[2].processed
  /\ \E i, j \in DOMAIN runs :
       /\ i < j
       /\ runs[i].pass = runs[j].pass
       /\ runs[i].id = queue[1].id
       /\ runs[j].id = queue[2].id

\* some handler run for event id succeeded
HandlerSucceeded(id) == \E i \in DOMAIN runs : runs[i].id = id /\ runs[i].ok

\* this step is a handler run that failed
HandlerFailsNow ==
  /\ Len(runs') = Len(runs) + 1
  /\ ~runs'[Len(runs')].ok

\* C10: an entry is processed, on the node and in what the status page holds
\* and shows as "Processed", only if a handler run for it succeeded; a failing
\* handler run leaves the queue as it was, the entry in it with processed =
\* false.
Thm_C10_AtLeastOnceDelivery ==
  /\ [](/\ \A i \in DOMAIN queue : queue[i].processed => HandlerSucceeded(queue[i].id)
        /\ \A i \in DOMAIN webhookQueue :
             webhookQueue[i].processed => HandlerSucceeded(webhookQueue[i].id)
        /\ \A i \in DOMAIN logRows :
             logRows[i].status = "Processed" => HandlerSucceeded(logRows[i].id))
  /\ [][HandlerFailsNow =>
          /\ queue' = queue
          /\ \E i \in DOMAIN queue' :
               /\ queue'[i].id = runs'[Len(runs')].id
               /\ ~queue'[i].processed]_vars

\* an entry whose handler failed is handed to it again by a later drain,
\* succeeds then, and the log shows it as processed
Witness_C10 ==
  /\ \E i, j \in DOMAIN runs :
       /\ i < j
       /\ runs[i].id = runs[j].id
       /\ ~runs[i].ok /\ runs[j].ok
       /\ runs[i].pass < runs[j].pass
       /\ \E k \in DOMAIN queue : queue[k].id = runs[i].id /\ queue[k].processed
       /\ \E k \in DOMAIN logRows :
            logRows[k].id = runs[i].id /\ logRows[k].status = "Processed"

\* ------------------------------------------------------------------------
\* Properties of the clear-queue request
\* ------------------------------------------------------------------------
\* the step is a confirm dialog that the operator declined
DeclinedNow ==
  /\ Len(confirmLog') = Len(confirmLog) + 1
  /\ ~confirmLog'[Len(confirmLog')]

\* C12: as many DELETE /webhook/queue requests were sent as confirm dialogs
\* were accepted, and a declined dialog sends nothing and leaves the queue,
\* the page's copy of it, the counter, both listings and the overlay as they
\* were.
Thm_C12_ClearNeedsConfirmation ==
  /\ [](deletesSent = Cardinality({i \in DOMAIN confirmLog : confirmLog[i]}))
  /\ [][DeclinedNow =>
          UNCHANGED <<queue, webhookQueue, pendingWebhooks, queueRows, logRows,
                      clearPc, deletesSent, overlays, pending>>]_vars

\* the operator declined once with an event waiting and shown, and the event is
\* still there and shown
Witness_C12 ==
  /\ confirmLog = <<FALSE>>
  /\ Len(queue) = 1 /\ Len(queueRows) = 1 /\ Len(logRows) = 1
  /\ deletesSent = 0

\* ------------------------------------------------------------------------
\* Properties of api.healthRecords.create
\* ------------------------------------------------------------------------
\* C20: every record-create request goes to /api/health-records/ followed by
\* the patient id of the record being created.
Cex_C20_CreatePathNamesPatient ==
  \A t \in TaskIds :
    tasks[t].createIssued => tasks[t].createPath = tasks[t].patientId

\* ------------------------------------------------------------------------
\* Properties of the status page's broker calls
\* ------------------------------------------------------------------------
CallsOf(o) == {i \in DOMAIN calls : calls[i].op = o}

BearerCallsOf(o) == {i \in CallsOf(o) : "Authorization" \in calls[i].headers}

AuthCallsOf(o) == {i \in CallsOf(o) : calls[i].endpoint = "/api/auth/session"}

\* C13: every call to the broker carries REQUEST-ID, TIMESTAMP and X-CM-ID,
\* and every call other than the authentication call carries Authorization
Cex_C13_BrokerCallsCarryHeaders ==
  \A i \in DOMAIN calls :
    /\ {"REQUEST-ID", "TIMESTAMP", "X-CM-ID"} \subseteq calls[i].headers
    /\ calls[i].endpoint # "/api/auth/session"
         => "Authorization" \in calls[i].headers

\* the op showed a failure
ShowsFailure(o) ==
  IF ops[o].fn = "loadBridgeStatus"
  THEN /\ ops[o].shownBridge \in {"Auth Failed", "Unavailable"}
       /\ ops[o].shownAuth \in {"Failed", "Error"}
  ELSE ops[o].outcome = "error"

\* C14: an authentication failure is fatal to the operation: an operation
\* whose authentication call failed makes no token-bearing call and shows a
\* failure status; every token-bearing call follows a successful
\* authentication call of its own operation and carries the token of that
\* call, which no other operation carries
Thm_C14_AuthFailureIsFatal ==
  \A o \in OpIds :
    /\ ops[o].authResult \in {"notOk", "throws"}
         => BearerCallsOf(o) = {} /\ ShowsFailure(o)
    /\ \A i \in BearerCallsOf(o) :
         /\ \E j \in AuthCallsOf(o) : j < i /\ calls[j].result = "ok"
         /\ calls[i].token # 0
         /\ calls[i].token = ops[o].token
         /\ \A k \in DOMAIN calls : calls[k].token = calls[i].token => calls[k].op = o

\* a refresh whose authentication failed showed the failure and made no
\* bridge-list call; the next refresh authenticated anew and listed the
\* bridges with its own token
Witness_C14 ==
  \E o1, o2 \in OpIds :
    /\ o1 < o2
    /\ ops[o1].fn = "loadBridgeStatus" /\ ops[o2].fn = "loadBridgeStatus"
    /\ ops[o1].authResult = "notOk" /\ ops[o1].shownBridge = "Auth Failed"
    /\ BearerCallsOf(o1) = {}
    /\ \E j \in AuthCallsOf(o2) : \A k \in AuthCallsOf(o1) : k < j
    /\ ops[o2].authResult = "ok" /\ BearerCallsOf(o2) # {}
    /\ ops[o2].pc = "done"

\* C19: any two calls of generateUUID yield different values
Cex_C19_GeneratedIdsDiffer ==
  \A i, j \in DOMAIN calls :
    (i # j /\ calls[i].requestId # <<>> /\ calls[j].requestId # <<>>)
      => calls[i].requestId # calls[j].requestId

Delivered == Len(inbox') = Len(inbox) + 1

Arrived == inbox'[Len(inbox')]

\* C15: a data-delivery whose requestId names a DataRequest in
\* awaiting-response attaches its records and makes the request fulfilled; a
\* request becomes fulfilled from awaiting-response only
Thm_C15_DeliveryFulfilsAwaitingRequest ==
  /\ [][(/\ Delivered
         /\ Arrived.type = "data-delivery"
         /\ Arrived.requestId \in DOMAIN dataRequests
         /\ dataRequests[Arrived.requestId].status = "awaiting-response")
        => dataRequests'[Arrived.requestId] =
             [status |-> "fulfilled", records |-> Arrived.records]]_vars
  /\ [][\A r \in DOMAIN dataRequests' :
          (dataRequests'[r].status = "fulfilled"
             /\ (r \notin DOMAIN dataRequests
                   \/ dataRequests[r].status # "fulfilled"))
          => (r \in DOMAIN dataRequests
                /\ dataRequests[r].status = "awaiting-response")]_vars

\* a delivery that came before the request was dispatched was left aside; the
\* one that came while the request was awaiting its response fulfilled it
Witness_C15 ==
  \E i, j \in DOMAIN inbox :
    /\ j < i
    /\ inbox[j].requestId = inbox[i].requestId
    /\ inbox[j].records # inbox[i].records
    /\ replies[j].seen = "initiated"
    /\ replies[j].result = "discarded"
    /\ replies[i].seen = "awaiting-response"
    /\ dataRequests[inbox[i].requestId] =
         [status |-> "fulfilled", records |-> inbox[i].records]
    /\ healthRecords = inbox[i].records

\* C16: a data-delivery whose requestId is unknown or names a fulfilled
\* DataRequest changes no DataRequest and raises no error
Thm_C16_StaleDeliveryDiscarded ==
  [][(/\ Delivered
      /\ Arrived.type = "data-delivery"
      /\ \/ Arrived.requestId \notin DOMAIN dataRequests
         \/ dataRequests[Arrived.requestId].status = "fulfilled")
     => (/\ dataRequests' = dataRequests
         /\ replies'[Len(replies')].result # "error")]_vars

\* a fulfilled request got a second delivery with other records, and a
\* delivery arrived for a requestId the node never issued
Witness_C16 ==
  \E i, j \in DOMAIN inbox :
    /\ replies[i].seen = "fulfilled"
    /\ dataRequests[inbox[i].requestId].status = "fulfilled"
    /\ dataRequests[inbox[i].requestId].records # inbox[i].records
    /\ replies[i].result = "discarded"
    /\ replies[j].seen = "unknown"
    /\ inbox[j].requestId \notin DOMAIN dataRequests
    /\ replies[j].result = "discarded"

\* C17: a DataRequest is marked timed-out only while awaiting-response, and a
\* timed-out request is changed by nothing that arrives later
Thm_C17_TimedOutRejectsLateResponse ==
  /\ [][\A r \in DOMAIN dataRequests :
          (dataRequests'[r].status = "timed-out"
             /\ dataRequests[r].status # "timed-out")
          => dataRequests[r].status = "awaiting-response"]_vars
  /\ [][\A r \in DOMAIN dataRequests :
          dataRequests[r].status = "timed-out"
          => dataRequests'[r] = dataRequests[r]]_vars

\* a response arrived for a request already timed-out and was discarded
Witness_C17 ==
  \E i \in DOMAIN inbox :
    /\ replies[i].seen = "timed-out"
    /\ replies[i].result = "discarded"
    /\ dataRequests[inbox[i].requestId] = [status |-> "timed-out", records |-> <<>>]
    /\ healthRecords = <<>>

\* ------------------------------------------------------------------------
\* Properties of the bridge registry
\* ------------------------------------------------------------------------
\* the Register calls made for a bridge
CallsFor(b) == {k \in DOMAIN registerLog : registerLog[k].bridgeId = b}

LastCallFor(b) == CHOOSE k \in CallsFor(b) : \A n \in CallsFor(b) : n <= k

\* C18: Register is an upsert keyed on bridgeId: there is at most one
\* registration per bridgeId, and its callbackUrl is that of the latest
\* Register call for the bridgeId, wherever the calls for other bridges fell
Thm_C18_RegisterIsUpsert ==
  \A b \in BridgeIds :
    /\ Cardinality(RowsOf(registrations, b)) <= 1
    /\ IF CallsFor(b) = {} THEN Lookup(b) = NotFound
       ELSE /\ Lookup(b) # NotFound
            /\ Lookup(b).callbackUrl = registerLog[LastCallFor(b)].callbackUrl

\* a bridge registered again with another callbackUrl after a second bridge
\* had registered in between
Witness_C18 ==
  /\ Len(registerLog) = 3
  /\ registerLog[1].bridgeId = "B1"
  /\ registerLog[2].bridgeId = "B2"
  /\ registerLog[3].bridgeId = "B1"
  /\ registerLog[3].callbackUrl # registerLog[1].callbackUrl
  /\ Len(registrations) = 2
  /\ Lookup("B1").callbackUrl = registerLog[3].callbackUrl

\* ------------------------------------------------------------------------
\* Properties of utils
\* ------------------------------------------------------------------------
HexDigits == {Hex[i] : i \in DOMAIN Hex}

\* C30: generateUUID returns 8-4-4-4-12 lowercase hexadecimal digits, the
\* third group starting with 4 and the fourth with 8, 9, a or b
Thm_C30_UuidHasVersion4Form ==
  uuid # <<>> =>
    /\ Len(uuid) = 36
    /\ \A i \in 1..36 :
         IF i \in {9, 14, 19, 24} THEN uuid[i] = "-" ELSE uuid[i] \in HexDigits
    /\ uuid[15] = "4"
    /\ uuid[20] \in {"8", "9", "a", "b"}

\* an id whose first digit is f and whose fourth group starts with b
Witness_C30 == uuid # <<>> /\ uuid[1] = "f" /\ uuid[20] = "b"

\* ------------------------------------------------------------------------
\* Properties of the record save
\* ------------------------------------------------------------------------
\* the create request of save t returned with success in this step
CreateReturned(t) ==
  /\ tasks[t].kind = "save"
  /\ tasks[t].pc = "create"
  /\ Len(healthRecords') = Len(healthRecords) + 1

\* C22: a save that finds no care context selected makes one create-and-link
\* call; a save that finds one selected makes none
Cex_C22_SaveRetriesCreateAndLink ==
  [][\A t \in TaskIds :
       CreateReturned(t) =>
         IF selectedCareContext = 0
         THEN tasks'[t].pc = "cal" /\ tasks'[t].calCalls = 1
         ELSE tasks'[t].calCalls = 0]_vars

\* C23: on both pages, created-and-linked is reported only for a linked
\* context, a pending result is reported as pending or local-only, and a
\* failed result is never reported as linked
Cex_C23_ReportMatchesLinkingResult ==
  \A i \in DOMAIN shown :
    /\ shown[i].message = "linked" => shown[i].result = "linked"
    /\ shown[i].result = "pending" => shown[i].message \in {"pending", "local"}
    /\ shown[i].result = "failed" => shown[i].message # "linked"

\* save t ended in this step without a record: rejected by the validation, or
\* its create request failed
SaveGaveUp(t) ==
  /\ tasks'[t].kind = "save"
  /\ tasks'[t].outcome \in {"rejected", "error"}
  /\ (t \in TaskIds => tasks[t].outcome = "none")

\* C24: a save that the validation rejects or whose create request fails
\* makes no create-and-link call and no notification and leaves selectedVisit
\* and selectedCareContext alone; a save resets them only after its record
\* was created
Thm_C24_FailedSaveLeavesSelection ==
  /\ [](\A t \in TaskIds :
          (tasks[t].kind = "save" /\ tasks[t].outcome \in {"rejected", "error"})
          => (tasks[t].calCalls = 0 /\ tasks[t].notifyCalls = 0
                /\ tasks[t].created = 0))
  /\ [][\A t \in DOMAIN tasks' :
          SaveGaveUp(t) => UNCHANGED <<selectedVisit, selectedCareContext>>]_vars
  /\ [][\A t \in TaskIds :
          (/\ tasks[t].kind = "save"
           /\ tasks'[t] # tasks[t]
           /\ <<selectedVisit, selectedCareContext>>' #
                <<selectedVisit, selectedCareContext>>)
          => (/\ tasks'[t].created # 0
              /\ selectedVisit' = ""
              /\ selectedCareContext' = 0)]_vars

\* the create request of a save failed while a visit and its care context
\* were selected, and both still are
Witness_C24 ==
  \E t \in TaskIds :
    /\ tasks[t].kind = "save"
    /\ tasks[t].outcome = "error"
    /\ tasks[t].createIssued
    /\ selectedVisit = tasks[t].visit
    /\ selectedVisit # ""
    /\ selectedCareContext # 0

\* C25: a selected care context is the one returned by the create-and-link
\* call made for the visit that is selected now
Cex_C25_SelectedContextBelongsToVisit ==
  selectedCareContext # 0 =>
    /\ selectedVisit # ""
    /\ \E t \in TaskIds :
         /\ tasks[t].visit = selectedVisit
         /\ tasks[t].calCtx = selectedCareContext

\* ------------------------------------------------------------------------
\* Properties of the loading overlay
\* ------------------------------------------------------------------------
\* the calls of the given name that handler o has made so far
CallsMade(o, name) ==
  Cardinality({ki \in (1..(pageOps[o].pos - 1)) \X (1..2) :
                 /\ ki[2] \in DOMAIN pageOps[o].path[ki[1]]
                 /\ pageOps[o].path[ki[1]][ki[2]] = name})

\* showLoading calls of the first n handlers not yet matched by a hideLoading
RECURSIVE Unmatched(_)
Unmatched(n) ==
  IF n = 0 THEN 0
  ELSE Unmatched(n - 1) + CallsMade(n, "show") - CallsMade(n, "hide")

\* every showLoading is matched by one hideLoading on every path, and the
\* overlays in the document are as many as the calls not yet matched
OverlaysBalanced ==
  /\ \A o \in DOMAIN pageOps :
       /\ CallsMade(o, "hide") <= CallsMade(o, "show")
       /\ ~InFlight(o) => CallsMade(o, "hide") = CallsMade(o, "show")
  /\ Len(overlayList) = Unmatched(Len(pageOps))
  /\ (\A o \in DOMAIN pageOps : ~InFlight(o)) => overlayList = <<>>

\* C29 as stated: balanced, and no hideLoading removes the overlay of another
\* operation that is still in flight
Cex_C29_HideNeverTakesAnothersOverlay ==
  /\ OverlaysBalanced
  /\ \A o \in DOMAIN pageOps : ~pageOps[o].took

\* C29 amended: every showLoading is matched by exactly one hideLoading on
\* every path, no overlay remains when no operation is in flight, and while
\* an operation has a showLoading unmatched an overlay is on display
Thm_C29_OverlaysBalanced ==
  /\ OverlaysBalanced
  /\ \A o \in DOMAIN pageOps :
       CallsMade(o, "show") > CallsMade(o, "hide") => overlayList # <<>>

\* two handlers overlapped, the hideLoading of one removed the overlay the
\* other had shown, and when both had ended no overlay was left
Witness_C29 ==
  /\ Len(pageOps) = 2
  /\ pageOps[2].took
  /\ pageOps[1].kind = "save" /\ Len(pageOps[1].path) = 4
  /\ \A o \in DOMAIN pageOps : ~InFlight(o)
  /\ overlayList = <<>>

\* C26: under every interleaving of refreshes (loadAllStatus with its two
\* fetches, the log refresh, a cleared queue) and clicks, viewWebhookDetails
\* shows the webhook of the row that was clicked: the index of the row is the
\* place of that same entry in webhookQueue when the click happens
Cex_C26_DetailsOfClickedRow ==
  \A k \in DOMAIN details :
    /\ details[k].modal.found
    /\ details[k].modal.id = details[k].row.id

\* C28: on every page that calls api.patients.search, a search by a mobile
\* number no patient has ends in "No patient found" and renders and offers no
\* patient; a search that matches shows the name and the id of the patient
\* that matched
Cex_C28_SearchShowsTheMatchOrNone ==
  \A k \in DOMAIN searchResults :
    LET r == searchResults[k]
    IN (r.ok /\ r.rendered.text # "invalid") =>
         IF r.match = 0
         THEN /\ r.rendered.text = "No patient found"
              /\ ~r.rendered.selectable
         ELSE /\ r.rendered.name = r.patients[r.match].name
              /\ r.rendered.id = r.patients[r.match].patientId

\* the status a run of checkABDMStatus is to leave on display
ExpectedAbdmStatus(local, gateway) ==
  IF local = "ok" /\ gateway = "ok" THEN "Connected"
  ELSE IF local = "ok" THEN "Gateway Down"
  ELSE "Offline"

\* C27: when a run of checkABDMStatus completes the element shows
\* "Connected" exactly when both health checks answered ok, "Gateway Down"
\* when the local one answered ok and the gateway one failed or answered
\* otherwise, and "Offline" in every other case: the status of an earlier
\* run is never left on display
Cex_C27_StatusOfThisRun ==
  \A i \in DOMAIN abdmRuns :
    abdmRuns[i].pc = "done" =>
      abdmRuns[i].display = ExpectedAbdmStatus(abdmRuns[i].local, abdmRuns[i].gateway)

\* C21: wherever a stored Aadhaar value is displayed, whatever its length,
\* the text shown is made of at most its first 4 characters, the mask and at
\* most its last 4 characters, and what is revealed leaves at least one
\* character of the value out
Cex_C21_AadhaarMasked ==
  (aadhaarCell # <<>> /\ aadhaarCell.aadhaar # <<>>) =>
    LET a == aadhaarCell.aadhaar
    IN \E p \in 0..4, q \in 0..4 :
         /\ p <= Len(a) /\ q <= Len(a)
         /\ aadhaarCell.text =
              SubSeq(a, 1, p) \o Stars \o SubSeq(a, Len(a) - q + 1, Len(a))
         /\ p + q < Len(a)
====
